---- MODULE Spec2Model ----
(***************************************************************************)
(* Session / cursor coordination layer of mongojet.                        *)
(*                                                                         *)
(* A single-threaded caller issues calls; every call builds a future and   *)
(* hands it to runtime::spawn, which runs it as a task of the shared tokio *)
(* runtime.  A task takes the tokio Mutex of the cursor and/or session it  *)
(* works on, calls the engine (the mongodb driver), drops its guards and   *)
(* resolves with a value, a StopAsyncIteration or a classified error.      *)
(***************************************************************************)
EXTENDS Integers, Sequences, FiniteSets, TLC

\* ------------------------------------------------------------- bounds
NumTasks == 2      \* task slots: calls that can be pending at once
MaxDocs == 2       \* largest result set of a cursor
MaxBatch == 2      \* largest batch_size passed to next_batch

\* ------------------------------------------------------------ objects
Tasks == 1..NumTasks
NoTask == 0
NoRuntime == 0

Sessions == {"s1", "s2"}
PlainCursors == {"c1", "c2"}
SessionCursors == {"sc1", "sc2"}
Cursors == PlainCursors \cup SessionCursors

NoSession == "none"

CursorOps == {"next", "next_batch", "collect"}
TxnOps == {"start_transaction", "commit_transaction", "abort_transaction"}
FacadeOps == {"insert_one_with_session", "update_one_with_session",
              "find_one_with_session", "run_command_with_session",
              "count_documents_with_session", "find_with_session"}

\* Facade operations that open a result cursor and drain it in one call.
DrainOps == {"find_many_with_session", "list_indexes_with_session",
             "list_collections_with_session"}

SessionOps == TxnOps \cup FacadeOps \cup DrainOps

\* Operations that take no session and no cursor.
PlainOps == {"core_create_client", "insert_one"}

\* ------------------------------------------------------ engine errors
NoErr == [kind |-> "None", failure |-> "", code |-> 0]

EngineErr(kind, failure, code) == [kind |-> kind, failure |-> failure, code |-> code]

\* Errors the engine reports while a cursor is advanced.
CursorEngineErrors == {EngineErr("Command", "", 43), EngineErr("Io", "", 0)}

\* Errors the engine reports for an operation on a session.
SessionEngineErrors == {EngineErr("Write", "WriteError", 11000),
                        EngineErr("Transaction", "", 0)}

\* The server code of a duplicate key, the one code the classifier looks at.
DuplicateKeyCode == 11000

\* Mutant: the carve-out for the duplicate key code is missing.
WriteErrorKind_NoCarveOut(code) == "WriteError"

\* WriteFailure::WriteError(w): the duplicate key code gets its own class.
WriteErrorKind(code) ==
    IF code = DuplicateKeyCode THEN "DuplicateKeyError" ELSE "WriteError"

\* Mutant: the FileNotFound arm is missing.
GridFsKind_NoFileArm(failure) == "GridFSError"

\* ErrorKind::GridFs(kind).
GridFsKind(failure) ==
    IF failure = "FileNotFound" THEN "NoFile" ELSE "GridFSError"

\* Mutant: the catch-all arm raises the class of a failed command.
CatchAllKind_OperationFailure == "OperationFailure"

\* `_ => PyMongoError::new_err(msg)`.
CatchAllKind == "PyMongoError"

\* impl From<MongoError> for PyErr: the caller-visible kind of an engine error.
Classify(e) ==
    CASE e.kind = "InvalidArgument" -> "PyValueError"
      [] e.kind = "Authentication" -> "ConfigurationError"
      [] e.kind = "BsonSerialization" -> "BsonSerializationError"
      [] e.kind = "BsonDeserialization" -> "BsonDeserializationError"
      [] e.kind = "ServerSelection" -> "ServerSelectionError"
      [] e.kind = "Write" ->
            (CASE e.failure = "WriteConcernError" -> "WriteConcernError"
               [] e.failure = "WriteError" -> WriteErrorKind(e.code)
               [] OTHER -> "WriteError")
      [] e.kind = "BulkWrite" -> "WriteError"
      [] e.kind = "Command" -> "OperationFailure"
      [] e.kind = "GridFs" -> GridFsKind(e.failure)
      [] OTHER -> CatchAllKind

\* The engine's error kinds: those the classifier has an arm for, and some of
\* those it leaves to the catch-all arm.
DedicatedKinds == {"InvalidArgument", "Authentication", "BsonSerialization",
                   "BsonDeserialization", "ServerSelection", "Write", "BulkWrite",
                   "Command", "GridFs"}

EngineErrorKinds == DedicatedKinds \cup {"Transaction", "Io", "Internal"}

\* The shapes of a kind that has shapes (both enums are open: the `_` arms).
FailuresOf(kind) ==
    CASE kind = "Write" -> {"WriteConcernError", "WriteError", "Other"}
      [] kind = "GridFs" -> {"FileNotFound", "Other"}
      [] OTHER -> {""}

\* The server codes of a kind that carries one.
CodesOf(kind) ==
    IF kind \in {"Write", "BulkWrite", "Command"}
    THEN {DuplicateKeyCode, 121}
    ELSE {0}

\* Every engine error the classifier may be handed.
AllEngineErrors ==
    {EngineErr(k, f, c) : <<k, f, c>> \in
        {x \in EngineErrorKinds \X {"", "WriteConcernError", "WriteError", "Other",
                                     "FileNotFound"} \X {0, 121, DuplicateKeyCode} :
            x[2] \in FailuresOf(x[1]) /\ x[3] \in CodesOf(x[1])}}

\* The exception classes error.rs creates, plus the value error it reuses.
ErrorKinds == {"PyValueError", "ConfigurationError", "BsonSerializationError",
               "BsonDeserializationError", "ServerSelectionError",
               "WriteConcernError", "DuplicateKeyError", "WriteError",
               "OperationFailure", "NoFile", "GridFSError", "PyMongoError",
               "ConnectionFailure", "FileExists"}

\* Mutant: every class of error.rs derives directly from the base class.
ParentKind_Flat(k) ==
    IF k \in {"PyMongoError", "PyValueError", "PyRuntimeError"}
    THEN "PyException"
    ELSE "PyMongoError"

\* create_exception!(mongojet, Class, Base, ..): the base of each class;
\* the value error and the runtime error are Python's own.
ParentKind(k) ==
    CASE k = "PyMongoError" -> "PyException"
      [] k = "OperationFailure" -> "PyMongoError"
      [] k = "WriteError" -> "OperationFailure"
      [] k = "WriteConcernError" -> "OperationFailure"
      [] k = "DuplicateKeyError" -> "WriteError"
      [] k = "BsonSerializationError" -> "PyMongoError"
      [] k = "BsonDeserializationError" -> "PyMongoError"
      [] k = "ConnectionFailure" -> "PyMongoError"
      [] k = "ServerSelectionError" -> "ConnectionFailure"
      [] k = "ConfigurationError" -> "PyMongoError"
      [] k = "GridFSError" -> "PyMongoError"
      [] k = "NoFile" -> "GridFSError"
      [] k = "FileExists" -> "GridFSError"
      [] OTHER -> "PyException"

\* Class k is class anc or derives from it through the chain of bases.
RECURSIVE IsSubKind(_, _)
IsSubKind(k, anc) ==
    IF k = anc THEN TRUE
    ELSE IF k = "PyException" THEN FALSE
    ELSE IsSubKind(ParentKind(k), anc)

Stop == "StopAsyncIteration"

\* ClientSession as the engine hands it over: nothing absorbed yet.
FreshSession == [prev |-> "none", last |-> "none"]

Min(a, b) == IF a < b THEN a ELSE b

\* -------------------------------------------------------------- state
VARIABLES
    pc,           \* task -> idle | spawned | cursorLocked | advancing | engine |
                  \*         draining | done
    call,         \* task -> [op, target, n]: the call the task runs
    abandoned,    \* task -> the caller dropped the pending call
    acc,          \* task -> `result` vector being filled by next_batch / collect
    result,       \* task -> [kind, docs]: what the future resolved with
    startPos,     \* task -> cursor position when the task got its locks
    endPos,       \* task -> cursor position when the task dropped its locks
    engineErr,    \* task -> the error the engine reported to the task, or NoErr
    errPos,       \* task -> cursor position the engine left at that error
    snapshot,     \* task -> session state the engine read when the call began
    attempts,     \* task -> times the call's engine operation was invoked
    joinErr,      \* task -> the JoinError of the task's JoinHandle, or "none"
    taskRuntime,  \* task -> the Runtime the task was spawned on, or NoRuntime
    made,         \* task -> the CoreSessionCursor in the task's output, or "none"
    sessionLock,  \* session -> task holding Arc<Mutex<ClientSession>>, or NoTask
    cursorLock,   \* cursor -> task holding Arc<Mutex<Cursor>>, or NoTask
    pos,          \* cursor -> documents the engine has handed out
    resultLen,    \* cursor -> size N of the cursor's result set
    opened,       \* cursors whose CoreCursor / CoreSessionCursor the caller holds
    held,         \* sessions whose CoreSession the caller holds
    strong,       \* session or cursor -> strong count of its Arc<Mutex<..>>
    destroyed,    \* sessions and cursors whose Arc has dropped its value
    cursorSession,\* session cursor -> CoreSessionCursor.session, or NoSession
    engineSession,\* session cursor -> session the engine opened the cursor under
    client,       \* the caller holds a CoreClient
    runtime,      \* the cell RT of runtime::tokio(): the Runtime in it, or NoRuntime
    created,      \* number of Runtimes Runtime::new() has made
    sessionState, \* session -> what the engine session has absorbed
    serialState,  \* session -> state a serial run in lock order would leave
    observed,     \* cursors whose caller keeps the record below (never changes)
    abandonedOn,  \* cursor -> a call on it was abandoned
    stopSeen,     \* cursor -> the caller has received StopAsyncIteration from next()
    errorSeen,    \* cursor -> the caller has received an engine error from a call
    delivered     \* cursor -> documents the caller has received from its calls

taskVars == <<pc, call, abandoned, acc, result, startPos, endPos, engineErr,
              errPos, snapshot, attempts, joinErr, taskRuntime, made>>
lockVars == <<sessionLock, cursorLock>>
cursorVars == <<pos, resultLen, opened>>
sessVars == <<sessionState, serialState>>
histVars == <<observed, abandonedOn, stopSeen, errorSeen, delivered>>
ownVars == <<held, strong, destroyed, cursorSession, engineSession, client>>
rtVars == <<runtime, created>>
vars == <<taskVars, lockVars, cursorVars, sessVars, histVars, ownVars, rtVars>>

NoCall == [op |-> "none", target |-> "none", n |-> 0]
NoResult == [kind |-> "none", docs |-> <<>>]

\* The documents of cursor c's result set, in result order.
ResultSet(c) == [i \in 1..resultLen[c] |-> i]

\* CoreSessionCursor.session: the session reference the cursor object keeps.
SessionOf(c) == cursorSession[c]

\* What sits behind an Arc<Mutex<..>>.
Resources == Sessions \cup Cursors

IsSessionCursorTask(t) == call[t].op \in CursorOps /\ call[t].target \in SessionCursors

\* CoreSession::new, CoreCursor::new, CoreSessionCursor::new: fresh mutexes,
\* cursors at the start of their result sets, no call pending.
InitObjects ==
    /\ pc = [t \in Tasks |-> "idle"]
    /\ call = [t \in Tasks |-> NoCall]
    /\ abandoned = [t \in Tasks |-> FALSE]
    /\ acc = [t \in Tasks |-> <<>>]
    /\ result = [t \in Tasks |-> NoResult]
    /\ startPos = [t \in Tasks |-> 0]
    /\ endPos = [t \in Tasks |-> 0]
    /\ engineErr = [t \in Tasks |-> NoErr]
    /\ errPos = [t \in Tasks |-> 0]
    /\ snapshot = [t \in Tasks |-> FreshSession]
    /\ attempts = [t \in Tasks |-> 0]
    /\ joinErr = [t \in Tasks |-> "none"]
    /\ taskRuntime = [t \in Tasks |-> NoRuntime]
    /\ made = [t \in Tasks |-> "none"]
    /\ sessionLock = [s \in Sessions |-> NoTask]
    /\ cursorLock = [c \in Cursors |-> NoTask]
    /\ pos = [c \in Cursors |-> 0]
    /\ \E n \in 0..MaxDocs : resultLen = [c \in Cursors |-> n]
    /\ sessionState = [s \in Sessions |-> FreshSession]
    /\ serialState = [s \in Sessions |-> FreshSession]
    /\ abandonedOn = [c \in Cursors |-> FALSE]
    /\ stopSeen = [c \in Cursors |-> FALSE]
    /\ errorSeen = [c \in Cursors |-> FALSE]
    /\ delivered = [c \in Cursors |-> 0]

\* The handles a caller holds after core_create_client, start_session on each
\* session of ss and a find_with_session on "s1" for each opened session
\* cursor: one Arc per session and cursor, one more reference to the session
\* in each of its cursors, and the Runtime the first of these calls made.
InitHandles(ss) ==
    /\ held = ss
    /\ cursorSession = [c \in SessionCursors |-> IF c \in opened THEN "s1" ELSE NoSession]
    /\ engineSession = [c \in SessionCursors |-> IF c \in opened THEN "s1" ELSE NoSession]
    /\ strong = [r \in Resources |->
                    IF r \in Sessions
                    THEN (IF r \in ss THEN 1 ELSE 0)
                         + (IF r = "s1" THEN Cardinality(opened \cap SessionCursors) ELSE 0)
                    ELSE IF r \in opened THEN 1 ELSE 0]
    /\ destroyed = {}
    /\ client = TRUE
    /\ runtime = 1
    /\ created = 1

\* ------------------------------------------------- the caller boundary
\* What a call refused for a borrow conflict raises: the wrapper of an
\* `async fn(&mut self)` fails to borrow the handle (PyBorrowMutError), and
\* session.borrow(py) of a *_with_session facade panics (PanicException).
BorrowRejections == {"PyBorrowMutError", "PanicException"}

\* The pyo3 wrapper of an `async fn(&mut self)` borrows the handle object
\* exclusively until the call's coroutine has finished or has been dropped.
MutBorrowed(h) ==
    \E u \in Tasks :
        /\ pc[u] # "idle"
        /\ ~abandoned[u]
        /\ result[u].kind \notin BorrowRejections
        /\ call[u].target = h
        /\ call[u].op \in CursorOps \cup TxnOps

\* Mutant: every call builds a Runtime of its own.
GetOrInit_AlwaysNew == created + 1

\* RT.get_or_init(|| Runtime::new().unwrap()): the Runtime in the cell, made
\* by the first call that finds the cell empty (OnceLock runs one initializer).
GetOrInit == IF runtime = NoRuntime THEN created + 1 ELSE runtime

\* Mutant: the future works on the handle's Arc without cloning it.
ClonesOf_None(op, target) == {}

\* Arc::clone(&self.cursor), Arc::clone(&self.session), session.clone(): the
\* references the call moves into its future.
ClonesOf(op, target) ==
    CASE op \in CursorOps /\ target \in SessionCursors -> {target, SessionOf(target)}
      [] op \in CursorOps /\ target \in PlainCursors -> {target}
      [] op \in SessionOps -> {target}
      [] OTHER -> {}

\* One reference to each resource of drop is dropped and one to each resource
\* of add is made; the value behind an Arc is dropped with its last reference.
Rebalance(drop, add) ==
    /\ strong' = [r \in Resources |->
                     strong[r] - (IF r \in drop THEN 1 ELSE 0)
                               + (IF r \in add THEN 1 ELSE 0)]
    /\ destroyed' = destroyed \cup {r \in drop \ add : strong[r] = 1}

Release(rs) == Rebalance(rs, {})

\* The future of task t is dropped, and with it the references it had cloned.
DropFuture(t) == Release(ClonesOf(call[t].op, call[t].target))

\* spawn(fut): tokio() hands out the Runtime and the future, with the
\* references it has cloned, becomes a task of it.  Task slots are
\* interchangeable, so a call takes the lowest idle one.
Spawn(t, op, target, n) ==
    /\ pc[t] = "idle"
    /\ \A u \in Tasks : u < t => pc[u] # "idle"
    /\ pc' = [pc EXCEPT ![t] = "spawned"]
    /\ call' = [call EXCEPT ![t] = [op |-> op, target |-> target, n |-> n]]
    /\ runtime' = GetOrInit
    /\ created' = IF GetOrInit > created THEN created + 1 ELSE created
    /\ taskRuntime' = [taskRuntime EXCEPT ![t] = GetOrInit]
    /\ strong' = [r \in Resources |->
                     IF r \in ClonesOf(op, target) THEN strong[r] + 1 ELSE strong[r]]
    /\ UNCHANGED <<held, destroyed, cursorSession, engineSession, client>>

\* CoreCursor / CoreSessionCursor :: next, next_batch, collect up to spawn(fut).
DispatchCursorOp(t, c, op, n) ==
    /\ c \in opened
    /\ ~MutBorrowed(c)
    /\ (op = "next_batch" \/ n = 0)
    /\ Spawn(t, op, c, n)
    /\ UNCHANGED <<abandoned, acc, result, startPos, endPos, engineErr,
                   errPos, snapshot, attempts, joinErr, made, lockVars,
                   cursorVars, sessVars, histVars>>

\* CoreSession :: start_transaction, commit_transaction, abort_transaction
\* up to spawn(fut).
DispatchTxnOp(t, s, op) ==
    /\ s \in held
    /\ ~MutBorrowed(s)
    /\ Spawn(t, op, s, 0)
    /\ UNCHANGED <<abandoned, acc, result, startPos, endPos, engineErr,
                   errPos, snapshot, attempts, joinErr, made, lockVars,
                   cursorVars, sessVars, histVars>>

\* CoreCollection / CoreDatabase :: *_with_session up to spawn(fut):
\* session.borrow(py) is a shared borrow that ends before the future is built.
DispatchFacadeOp(t, s, op) ==
    /\ s \in held
    /\ ~MutBorrowed(s)
    /\ Spawn(t, op, s, 0)
    /\ UNCHANGED <<abandoned, acc, result, startPos, endPos, engineErr,
                   errPos, snapshot, attempts, joinErr, made, lockVars,
                   cursorVars, sessVars, histVars>>

\* Mutant: a call on a borrowed handle is spawned like any other and waits
\* for the lock behind the pending one.
Reject_Queues(t, op, target, n, kind) ==
    /\ Spawn(t, op, target, n)
    /\ UNCHANGED <<abandoned, acc, result, startPos, endPos, engineErr,
                   errPos, snapshot, attempts, joinErr, made, lockVars,
                   cursorVars, sessVars, histVars>>

\* The call is refused before a future is built: nothing is spawned, the
\* caller has the borrow error at once.
Reject(t, op, target, n, kind) ==
    /\ pc[t] = "idle"
    /\ \A u \in Tasks : u < t => pc[u] # "idle"
    /\ pc' = [pc EXCEPT ![t] = "done"]
    /\ call' = [call EXCEPT ![t] = [op |-> op, target |-> target, n |-> n]]
    /\ result' = [result EXCEPT ![t] = [kind |-> kind, docs |-> <<>>]]
    /\ UNCHANGED <<abandoned, acc, startPos, endPos, engineErr, errPos,
                   snapshot, attempts, joinErr, taskRuntime, made, lockVars,
                   cursorVars, sessVars, histVars, ownVars, rtVars>>

\* CoreCursor / CoreSessionCursor :: next, next_batch, collect called while a
\* call on the same cursor object is pending.
RejectCursorOp(t, c, op, n) ==
    /\ c \in opened
    /\ MutBorrowed(c)
    /\ (op = "next_batch" \/ n = 0)
    /\ Reject(t, op, c, n, "PyBorrowMutError")

\* CoreSession :: start_transaction, commit_transaction, abort_transaction
\* called while a call of one of them on the same session object is pending.
RejectTxnOp(t, s, op) ==
    /\ s \in held
    /\ MutBorrowed(s)
    /\ Reject(t, op, s, 0, "PyBorrowMutError")

\* CoreCollection / CoreDatabase :: *_with_session called while a transaction
\* method of the session object is pending.
RejectFacadeOp(t, s, op) ==
    /\ s \in held
    /\ MutBorrowed(s)
    /\ Reject(t, op, s, 0, "PanicException")

\* The task slot is free again: nothing of the call is left.
ResetTask(t) ==
    /\ pc' = [pc EXCEPT ![t] = "idle"]
    /\ call' = [call EXCEPT ![t] = NoCall]
    /\ abandoned' = [abandoned EXCEPT ![t] = FALSE]
    /\ acc' = [acc EXCEPT ![t] = <<>>]
    /\ result' = [result EXCEPT ![t] = NoResult]
    /\ startPos' = [startPos EXCEPT ![t] = 0]
    /\ endPos' = [endPos EXCEPT ![t] = 0]
    /\ engineErr' = [engineErr EXCEPT ![t] = NoErr]
    /\ errPos' = [errPos EXCEPT ![t] = 0]
    /\ snapshot' = [snapshot EXCEPT ![t] = FreshSession]
    /\ attempts' = [attempts EXCEPT ![t] = 0]
    /\ joinErr' = [joinErr EXCEPT ![t] = "none"]
    /\ taskRuntime' = [taskRuntime EXCEPT ![t] = NoRuntime]
    /\ made' = [made EXCEPT ![t] = "none"]

\* Mutant: the bridge reports an engine failure of the work as a failure of
\* the task.
Resolve_WrapsFailure(t, res, from, to, e, at) ==
    IF abandoned[t]
    THEN ResetTask(t)
    ELSE /\ pc' = [pc EXCEPT ![t] = "done"]
         /\ result' = [result EXCEPT ![t] =
                           IF e = NoErr THEN res
                           ELSE [kind |-> "PyRuntimeError", docs |-> <<>>]]
         /\ acc' = [acc EXCEPT ![t] = IF e = NoErr THEN <<>> ELSE @]
         /\ startPos' = [startPos EXCEPT ![t] = from]
         /\ endPos' = [endPos EXCEPT ![t] = to]
         /\ engineErr' = [engineErr EXCEPT ![t] = e]
         /\ errPos' = [errPos EXCEPT ![t] = at]
         /\ snapshot' = [snapshot EXCEPT ![t] = FreshSession]
         /\ UNCHANGED <<call, abandoned, attempts, joinErr, taskRuntime, made>>

\* tokio().spawn(future): the task has run to its end.  Its output waits for
\* the caller's await, or is dropped at once when the JoinHandle is gone.
\* After an engine error `acc` keeps what the call had fetched and then dropped.
Resolve(t, res, from, to, e, at) ==
    IF abandoned[t]
    THEN ResetTask(t)
    ELSE /\ pc' = [pc EXCEPT ![t] = "done"]
         /\ result' = [result EXCEPT ![t] = res]
         /\ acc' = [acc EXCEPT ![t] = IF e = NoErr THEN <<>> ELSE @]
         /\ startPos' = [startPos EXCEPT ![t] = from]
         /\ endPos' = [endPos EXCEPT ![t] = to]
         /\ engineErr' = [engineErr EXCEPT ![t] = e]
         /\ errPos' = [errPos EXCEPT ![t] = at]
         /\ snapshot' = [snapshot EXCEPT ![t] = FreshSession]
         /\ UNCHANGED <<call, abandoned, attempts, joinErr, taskRuntime, made>>

\* core_create_client, CoreCollection::insert_one up to spawn(fut).  A
\* collection handle comes from a client.
DispatchPlainOp(t, op) ==
    /\ op = "core_create_client" \/ client
    /\ Spawn(t, op, "none", 0)
    /\ UNCHANGED <<abandoned, acc, result, startPos, endPos, engineErr,
                   errPos, snapshot, attempts, joinErr, made, lockVars,
                   cursorVars, sessVars, histVars>>

\* Mutant: the panic is swallowed and the call resolves with an empty value.
OnJoinError_Swallowed(j) == [kind |-> "Ok", docs |-> <<>>]

\* .map_err(|e| PyRuntimeError::new_err(e.to_string())): what spawn() resolves
\* with when the JoinHandle yields the JoinError j.
OnJoinError(j) == [kind |-> "PyRuntimeError", docs |-> <<>>]

\* Mutant: the guards of a panicked task are never dropped (a poisoned lock).
TaskPanic_KeepsGuards(t) ==
    /\ pc[t] \in {"spawned", "cursorLocked", "advancing", "engine", "draining"}
    /\ DropFuture(t)
    /\ IF abandoned[t]
       THEN ResetTask(t)
       ELSE /\ pc' = [pc EXCEPT ![t] = "done"]
            /\ joinErr' = [joinErr EXCEPT ![t] = "panicked"]
            /\ result' = [result EXCEPT ![t] = OnJoinError("panicked")]
            /\ UNCHANGED <<call, abandoned, acc, startPos, endPos, engineErr,
                           errPos, snapshot, attempts, taskRuntime, made>>
    /\ UNCHANGED <<lockVars, cursorVars, sessVars, histVars, held,
                   cursorSession, engineSession, client, rtVars>>

\* The task panics while it is polled (Vec::with_capacity on an oversized
\* batch_size, an expect() in a conversion, the engine): unwinding drops the
\* future with its guards and its references, and the JoinHandle yields a
\* JoinError.
TaskPanic(t) ==
    /\ pc[t] \in {"spawned", "cursorLocked", "advancing", "engine", "draining"}
    /\ sessionLock' = [s \in Sessions |->
                          IF sessionLock[s] = t THEN NoTask ELSE sessionLock[s]]
    /\ cursorLock' = [c \in Cursors |->
                         IF cursorLock[c] = t THEN NoTask ELSE cursorLock[c]]
    /\ DropFuture(t)
    /\ IF abandoned[t]
       THEN ResetTask(t)
       ELSE /\ pc' = [pc EXCEPT ![t] = "done"]
            /\ joinErr' = [joinErr EXCEPT ![t] = "panicked"]
            /\ result' = [result EXCEPT ![t] = OnJoinError("panicked")]
            /\ UNCHANGED <<call, abandoned, acc, startPos, endPos, engineErr,
                           errPos, snapshot, attempts, taskRuntime, made>>
    /\ UNCHANGED <<cursorVars, sessVars, histVars, held, cursorSession,
                   engineSession, client, rtVars>>

\* Mutant: the cursor object keeps no reference of its own to the session.
SessionCursorRefs_NoSession(c, s) == {c}

\* CoreSessionCursor { cursor, session }: the references the cursor object of
\* cursor c owns when its session field is s.
SessionCursorRefs(c, s) == {c, s}

\* CoreCursor { cursor }, CoreSessionCursor { cursor, session }.
CursorFields(c) ==
    IF c \in SessionCursors THEN SessionCursorRefs(c, cursorSession[c]) ELSE {c}

\* CoreSession { session }: what a handle object owns.
HandleFields(h) ==
    IF h \in Sessions THEN {h} ELSE IF h \in Cursors THEN CursorFields(h) ELSE {}

\* The coroutine of a pending call other than t keeps handle object h alive:
\* it holds the RefMutGuard of `&mut self`, or the `session: Py<CoreSession>`
\* argument, until it has finished or has been dropped.
Pinned(h, t) ==
    \E u \in Tasks \ {t} :
        /\ pc[u] # "idle"
        /\ ~abandoned[u]
        /\ result[u].kind \notin BorrowRejections
        /\ call[u].target = h

\* The caller holds a reference to handle object h.
CallerHolds(h) == h \in held \/ h \in opened

\* What is dropped with the coroutine of call t when it held the last
\* reference to the handle object of the call.
Orphaned(t) ==
    LET h == call[t].target IN
    IF /\ h \in Resources
       /\ result[t].kind \notin BorrowRejections
       /\ ~CallerHolds(h)
       /\ ~Pinned(h, t)
    THEN HandleFields(h)
    ELSE {}

\* Two objects are dropped, each with one reference to each of its resources.
ReleaseTwo(a, b) ==
    LET n(r) == (IF r \in a THEN 1 ELSE 0) + (IF r \in b THEN 1 ELSE 0) IN
    /\ strong' = [r \in Resources |-> strong[r] - n(r)]
    /\ destroyed' = destroyed \cup {r \in a \cup b : strong[r] = n(r)}

\* Mutant: dropping the call's coroutine aborts the task where it stands.
Abandon_Cancels(t) ==
    LET c == call[t].target IN
    /\ pc[t] # "idle"
    /\ ~abandoned[t]
    /\ abandonedOn' = IF c \in observed
                      THEN [abandonedOn EXCEPT ![c] = TRUE]
                      ELSE abandonedOn
    /\ ResetTask(t)
    /\ sessionLock' = [s \in Sessions |->
                          IF sessionLock[s] = t THEN NoTask ELSE sessionLock[s]]
    /\ cursorLock' = [d \in Cursors |->
                         IF cursorLock[d] = t THEN NoTask ELSE cursorLock[d]]
    /\ ReleaseTwo(IF pc[t] = "done"
                  THEN (IF made[t] # "none" THEN CursorFields(made[t]) ELSE {})
                  ELSE ClonesOf(call[t].op, c),
                  Orphaned(t))
    /\ UNCHANGED <<cursorVars, sessVars, observed, stopSeen, errorSeen,
                   delivered, held, cursorSession, engineSession, client, rtVars>>

\* The caller drops the call's coroutine: the JoinHandle inside spawn() is
\* dropped, which detaches the tokio task and lets it run on; the output of a
\* task that has already finished is dropped with it, a cursor object in it
\* included.
Abandon(t) ==
    LET c == call[t].target IN
    /\ pc[t] # "idle"
    /\ ~abandoned[t]
    /\ abandonedOn' = IF c \in observed
                      THEN [abandonedOn EXCEPT ![c] = TRUE]
                      ELSE abandonedOn
    /\ IF pc[t] = "done"
       THEN ResetTask(t)
       ELSE /\ abandoned' = [abandoned EXCEPT ![t] = TRUE]
            /\ UNCHANGED <<pc, call, acc, result, startPos, endPos, engineErr,
                           errPos, snapshot, attempts, joinErr, taskRuntime,
                           made>>
    /\ ReleaseTwo(IF pc[t] = "done" /\ made[t] # "none"
                  THEN CursorFields(made[t]) ELSE {},
                  Orphaned(t))
    /\ UNCHANGED <<lockVars, cursorVars, sessVars, observed, stopSeen,
                   errorSeen, delivered, held, cursorSession, engineSession,
                   client, rtVars>>

\* spawn(fut).await? resolves: the caller receives the future's result, and
\* with it the handle of a cursor the call has opened.
Return(t) ==
    LET c == call[t].target
        seen == c \in observed IN
    /\ pc[t] = "done"
    /\ stopSeen' = IF seen /\ result[t].kind = Stop
                   THEN [stopSeen EXCEPT ![c] = TRUE] ELSE stopSeen
    /\ errorSeen' = IF seen /\ engineErr[t] # NoErr
                    THEN [errorSeen EXCEPT ![c] = TRUE] ELSE errorSeen
    /\ delivered' = IF seen /\ result[t].kind = "Ok"
                    THEN [delivered EXCEPT ![c] = @ + Len(result[t].docs)]
                    ELSE delivered
    /\ opened' = IF made[t] # "none" THEN opened \cup {made[t]} ELSE opened
    /\ client' = (client \/ (call[t].op = "core_create_client" /\ result[t].kind = "Ok"))
    /\ ResetTask(t)
    /\ Release(Orphaned(t))
    /\ UNCHANGED <<lockVars, pos, resultLen, sessVars, observed, abandonedOn,
                   held, cursorSession, engineSession, rtVars>>

\* The caller drops its reference to the cursor object of c.  The object, and
\* with it the references in its fields, goes when no coroutine holds it.
DropCursorHandle(c) ==
    /\ c \in opened
    /\ opened' = opened \ {c}
    /\ IF Pinned(c, NoTask)
       THEN UNCHANGED <<strong, destroyed>>
       ELSE Release(CursorFields(c))
    /\ UNCHANGED <<taskVars, lockVars, pos, resultLen, sessVars, histVars,
                   held, cursorSession, engineSession, client, rtVars>>

\* The caller drops its reference to the CoreSession object of s.
DropSessionHandle(s) ==
    /\ s \in held
    /\ held' = held \ {s}
    /\ IF Pinned(s, NoTask)
       THEN UNCHANGED <<strong, destroyed>>
       ELSE Release(HandleFields(s))
    /\ UNCHANGED <<taskVars, lockVars, cursorVars, sessVars, histVars,
                   cursorSession, engineSession, client, rtVars>>

\* ------------------------------------------------- session operations
\* Mutant: the session lock is handed out while another guard is alive.
SessionLockFree_NoWait(s) == TRUE

\* Mutant: the lock is a lease that expires while the holder's engine call
\* is still unresolved.
SessionLockFree_Expires(s) ==
    IF sessionLock[s] = NoTask THEN TRUE ELSE pc[sessionLock[s]] = "engine"

\* Mutant: one mutex is shared by all the sessions.
SessionLockFree_Global(s) == \A x \in Sessions : sessionLock[x] = NoTask

\* tokio::sync::Mutex::lock().await resolves only while no guard is alive.
\* CoreSession::new gives every session a mutex of its own.
SessionLockFree(s) == sessionLock[s] = NoTask

\* Mutant: the cursor lock is handed out while another guard is alive.
CursorLockFree_NoWait(c) == TRUE

CursorLockFree(c) == cursorLock[c] = NoTask

\* What one engine call leaves in the session it was given: the session now
\* remembers this operation and the one it had absorbed before it, so the
\* outcome depends on the state the call started from and on the order of calls.
ApplyOp(state, op) == [prev |-> state.last, last |-> op]

\* Mutant: the engine call is started on the session without taking its lock.
SessionOpLock_Unlocked(t) ==
    LET s == call[t].target IN
    /\ pc[t] = "spawned"
    /\ call[t].op \in SessionOps
    /\ serialState' = [serialState EXCEPT ![s] = ApplyOp(@, call[t].op)]
    /\ snapshot' = [snapshot EXCEPT ![t] = sessionState[s]]
    /\ attempts' = [attempts EXCEPT ![t] = @ + 1]
    /\ pc' = [pc EXCEPT ![t] = "engine"]
    /\ UNCHANGED <<call, abandoned, acc, result, startPos, endPos, engineErr,
                   errPos, joinErr, taskRuntime, made, lockVars, cursorVars,
                   sessionState, histVars, ownVars, rtVars>>

\* Mutant: try_lock() in place of lock().await: a held lock fails the call.
SessionOpLock_TryLock(t) ==
    LET s == call[t].target IN
    /\ pc[t] = "spawned"
    /\ call[t].op \in SessionOps
    /\ IF SessionLockFree(s)
       THEN /\ sessionLock' = [sessionLock EXCEPT ![s] = t]
            /\ serialState' = [serialState EXCEPT ![s] = ApplyOp(@, call[t].op)]
            /\ snapshot' = [snapshot EXCEPT ![t] = sessionState[s]]
            /\ attempts' = [attempts EXCEPT ![t] = @ + 1]
            /\ pc' = [pc EXCEPT ![t] = "engine"]
            /\ UNCHANGED <<call, abandoned, acc, result, startPos, endPos,
                           engineErr, errPos, joinErr, taskRuntime, made,
                           strong, destroyed>>
       ELSE /\ Resolve(t, [kind |-> "PyRuntimeError", docs |-> <<>>], 0, 0, NoErr, 0)
            /\ DropFuture(t)
            /\ UNCHANGED <<sessionLock, serialState>>
    /\ UNCHANGED <<cursorLock, cursorVars, sessionState, histVars, held,
                   cursorSession, engineSession, client, rtVars>>

\* s.lock().await / session.lock().await.deref_mut() of a session operation:
\* the guard is taken and the engine call starts on the session.
SessionOpLock(t) ==
    LET s == call[t].target IN
    /\ pc[t] = "spawned"
    /\ call[t].op \in SessionOps
    /\ SessionLockFree(s)
    /\ sessionLock' = [sessionLock EXCEPT ![s] = t]
    /\ serialState' = [serialState EXCEPT ![s] = ApplyOp(@, call[t].op)]
    /\ snapshot' = [snapshot EXCEPT ![t] = sessionState[s]]
    /\ attempts' = [attempts EXCEPT ![t] = @ + 1]
    /\ pc' = [pc EXCEPT ![t] = "engine"]
    /\ UNCHANGED <<call, abandoned, acc, result, startPos, endPos, engineErr,
                   errPos, joinErr, taskRuntime, made, cursorLock, cursorVars,
                   sessionState, histVars, ownVars, rtVars>>

\* Mutant: the guard outlives the statement and is never dropped.
SessionOpOk_KeepsGuard(t) ==
    LET s == call[t].target IN
    /\ pc[t] = "engine"
    /\ call[t].op \in SessionOps \ ({"find_with_session"} \cup DrainOps)
    /\ sessionState' = [sessionState EXCEPT ![s] = ApplyOp(snapshot[t], call[t].op)]
    /\ Resolve(t, [kind |-> "Ok", docs |-> <<>>], 0, 0, NoErr, 0)
    /\ DropFuture(t)
    /\ UNCHANGED <<lockVars, cursorVars, serialState, histVars, held,
                   cursorSession, engineSession, client, rtVars>>

\* The engine call returns Ok: the statement ends, the guard is dropped.
SessionOpOk(t) ==
    LET s == call[t].target IN
    /\ pc[t] = "engine"
    /\ call[t].op \in SessionOps \ ({"find_with_session"} \cup DrainOps)
    /\ sessionState' = [sessionState EXCEPT ![s] = ApplyOp(snapshot[t], call[t].op)]
    /\ sessionLock' = [sessionLock EXCEPT ![s] = NoTask]
    /\ Resolve(t, [kind |-> "Ok", docs |-> <<>>], 0, 0, NoErr, 0)
    /\ DropFuture(t)
    /\ UNCHANGED <<cursorLock, cursorVars, serialState, histVars, held,
                   cursorSession, engineSession, client, rtVars>>

\* Mutant: the cursor object is given another session than the one locked.
StoredSession_Other(s) == CHOOSE o \in Sessions : o # s

\* Arc::clone(&session) in CoreSessionCursor::new(cur, Arc::clone(&session)):
\* the session the new cursor object stores, s being the one the call locked.
StoredSession(s) == s

\* Cursors the engine has not opened yet.
FreshCursors == {c \in SessionCursors : engineSession[c] = NoSession}

\* CoreCollection::find_with_session, CoreDatabase::aggregate_with_session:
\* the engine call returns Ok(cur), the statement ends and drops the guard,
\* and the future ends with a CoreSessionCursor made of cur and a clone of its
\* session reference.  The cursor object of a detached task is dropped at once.
FindOk(t) ==
    LET s == call[t].target
        c == CHOOSE d \in FreshCursors : TRUE
        stored == StoredSession(s) IN
    /\ pc[t] = "engine"
    /\ call[t].op = "find_with_session"
    /\ FreshCursors # {}
    /\ sessionState' = [sessionState EXCEPT ![s] = ApplyOp(snapshot[t], call[t].op)]
    /\ sessionLock' = [sessionLock EXCEPT ![s] = NoTask]
    /\ engineSession' = [engineSession EXCEPT ![c] = s]
    /\ IF abandoned[t]
       THEN /\ ResetTask(t)
            /\ DropFuture(t)
            /\ UNCHANGED cursorSession
       ELSE /\ pc' = [pc EXCEPT ![t] = "done"]
            /\ result' = [result EXCEPT ![t] = [kind |-> "Ok", docs |-> <<>>]]
            /\ made' = [made EXCEPT ![t] = c]
            /\ snapshot' = [snapshot EXCEPT ![t] = FreshSession]
            /\ cursorSession' = [cursorSession EXCEPT ![c] = stored]
            /\ Rebalance(ClonesOf(call[t].op, s), SessionCursorRefs(c, stored))
            /\ UNCHANGED <<call, abandoned, acc, startPos, endPos, engineErr,
                           errPos, attempts, joinErr, taskRuntime>>
    /\ UNCHANGED <<cursorLock, cursorVars, serialState, histVars, held,
                   client, rtVars>>

\* Mutant: the guard is a temporary of the statement that opens the cursor,
\* and the drain runs without it.
FindManyOpen_DropsGuard(t) ==
    LET s == call[t].target IN
    /\ pc[t] = "engine"
    /\ call[t].op \in DrainOps
    /\ sessionState' = [sessionState EXCEPT ![s] = ApplyOp(snapshot[t], call[t].op)]
    /\ sessionLock' = [sessionLock EXCEPT ![s] = NoTask]
    /\ pc' = [pc EXCEPT ![t] = "draining"]
    /\ UNCHANGED <<call, abandoned, acc, result, startPos, endPos, engineErr,
                   errPos, snapshot, attempts, joinErr, taskRuntime, made,
                   cursorLock, cursorVars, serialState, histVars, ownVars,
                   rtVars>>

\* find_many_with_session, list_indexes_with_session,
\* list_collections_with_session: `.session(session.deref_mut()).await` returns
\* Ok(cursor); the guard is the local `session`, so it is still held when
\* `.stream(&mut session.deref_mut())` starts to drain the cursor.
FindManyOpen(t) ==
    LET s == call[t].target IN
    /\ pc[t] = "engine"
    /\ call[t].op \in DrainOps
    /\ sessionState' = [sessionState EXCEPT ![s] = ApplyOp(snapshot[t], call[t].op)]
    /\ pc' = [pc EXCEPT ![t] = "draining"]
    /\ UNCHANGED <<call, abandoned, acc, result, startPos, endPos, engineErr,
                   errPos, snapshot, attempts, joinErr, taskRuntime, made,
                   lockVars, cursorVars, serialState, histVars, ownVars,
                   rtVars>>

\* try_collect().await returns Ok(docs): the future ends with the documents
\* and drops the guard.
FindManyDrain(t) ==
    LET s == call[t].target IN
    /\ pc[t] = "draining"
    /\ sessionLock' = [sessionLock EXCEPT ![s] = NoTask]
    /\ Resolve(t, [kind |-> "Ok", docs |-> <<>>], 0, 0, NoErr, 0)
    /\ DropFuture(t)
    /\ UNCHANGED <<cursorLock, cursorVars, sessVars, histVars, held,
                   cursorSession, engineSession, client, rtVars>>

\* try_collect().await returns Err(e): `?` leaves the future with the
\* classified error; the guard is dropped on the way out.
FindManyDrainErr(t, e) ==
    LET s == call[t].target IN
    /\ pc[t] = "draining"
    /\ sessionLock' = [sessionLock EXCEPT ![s] = NoTask]
    /\ Resolve(t, [kind |-> Classify(e), docs |-> <<>>], 0, 0, e, 0)
    /\ DropFuture(t)
    /\ UNCHANGED <<cursorLock, cursorVars, sessVars, histVars, held,
                   cursorSession, engineSession, client, rtVars>>

\* Mutant: the error path leaves the future with the session guard still alive.
SessionOpErr_KeepsGuard(t, e) ==
    LET s == call[t].target IN
    /\ pc[t] = "engine"
    /\ call[t].op \in SessionOps
    /\ sessionState' = [sessionState EXCEPT ![s] = ApplyOp(snapshot[t], call[t].op)]
    /\ Resolve(t, [kind |-> Classify(e), docs |-> <<>>], 0, 0, e, 0)
    /\ DropFuture(t)
    /\ UNCHANGED <<lockVars, cursorVars, serialState, histVars, held,
                   cursorSession, engineSession, client, rtVars>>

\* The engine call returns Err(e): `.map_err(|e| MongoError::from(e))?` leaves
\* the future with the classified error; the guard is dropped on the way out.
SessionOpErr(t, e) ==
    LET s == call[t].target IN
    /\ pc[t] = "engine"
    /\ call[t].op \in SessionOps
    /\ sessionState' = [sessionState EXCEPT ![s] = ApplyOp(snapshot[t], call[t].op)]
    /\ sessionLock' = [sessionLock EXCEPT ![s] = NoTask]
    /\ Resolve(t, [kind |-> Classify(e), docs |-> <<>>], 0, 0, e, 0)
    /\ DropFuture(t)
    /\ UNCHANGED <<cursorLock, cursorVars, serialState, histVars, held,
                   cursorSession, engineSession, client, rtVars>>

\* ----------------------------------------------- session-free operations
\* Errors the engine reports for an operation that takes no session.
PlainEngineErrors == {EngineErr("Write", "WriteError", DuplicateKeyCode),
                      EngineErr("ServerSelection", "", 0),
                      EngineErr("InvalidArgument", "", 0)}

\* The task is polled: the engine operation of the call is invoked
\* (collection.insert_one(document); for core_create_client
\* ClientOptions::parse and Client::with_options, one after the other).
PlainOpStart(t) ==
    /\ pc[t] = "spawned"
    /\ call[t].op \in PlainOps
    /\ attempts' = [attempts EXCEPT ![t] = @ + 1]
    /\ pc' = [pc EXCEPT ![t] = "engine"]
    /\ UNCHANGED <<call, abandoned, acc, result, startPos, endPos, engineErr,
                   errPos, snapshot, joinErr, taskRuntime, made, lockVars,
                   cursorVars, sessVars, histVars, ownVars, rtVars>>

\* The engine call returns Ok.
PlainOpOk(t) ==
    /\ pc[t] = "engine"
    /\ call[t].op \in PlainOps
    /\ Resolve(t, [kind |-> "Ok", docs |-> <<>>], 0, 0, NoErr, 0)
    /\ DropFuture(t)
    /\ UNCHANGED <<lockVars, cursorVars, sessVars, histVars, held,
                   cursorSession, engineSession, client, rtVars>>

\* Mutant: a failed engine call is made once more before the error is reported.
PlainOpErr_Retries(t, e) ==
    /\ pc[t] = "engine"
    /\ call[t].op \in PlainOps
    /\ IF attempts[t] < 2
       THEN /\ attempts' = [attempts EXCEPT ![t] = @ + 1]
            /\ UNCHANGED <<pc, call, abandoned, acc, result, startPos, endPos,
                           engineErr, errPos, snapshot, joinErr, taskRuntime,
                           made, strong, destroyed>>
       ELSE Resolve(t, [kind |-> Classify(e), docs |-> <<>>], 0, 0, e, 0)
            /\ DropFuture(t)
    /\ UNCHANGED <<lockVars, cursorVars, sessVars, histVars, held,
                   cursorSession, engineSession, client, rtVars>>

\* The engine call returns Err(e): `.map_err(|e| MongoError::from(e))?` leaves
\* the future with the classified error.
PlainOpErr(t, e) ==
    /\ pc[t] = "engine"
    /\ call[t].op \in PlainOps
    /\ Resolve(t, [kind |-> Classify(e), docs |-> <<>>], 0, 0, e, 0)
    /\ DropFuture(t)
    /\ UNCHANGED <<lockVars, cursorVars, sessVars, histVars, held,
                   cursorSession, engineSession, client, rtVars>>

\* --------------------------------------------------- cursor operations
\* The future of a cursor call ends: every guard it holds is dropped, the
\* cursor is where the engine left it.
Finish(t, res, from, to, e, at) ==
    LET c == call[t].target IN
    /\ Resolve(t, res, from, to, e, at)
    /\ DropFuture(t)
    /\ pos' = [pos EXCEPT ![c] = to]
    /\ cursorLock' = [cursorLock EXCEPT ![c] = NoTask]
    /\ sessionLock' = IF c \in SessionCursors
                      THEN [sessionLock EXCEPT ![SessionOf(c)] = NoTask]
                      ELSE sessionLock

\* for _ in 0..batch_size: with batch_size = 0 the body never runs.
EmptyLoop(t) == call[t].op = "next_batch" /\ call[t].n = 0

\* CoreCursor: cursor.lock().await.
CursorLock(t) ==
    LET c == call[t].target IN
    /\ pc[t] = "spawned"
    /\ call[t].op \in CursorOps
    /\ c \in PlainCursors
    /\ CursorLockFree(c)
    /\ IF EmptyLoop(t)
       THEN Finish(t, [kind |-> "Ok", docs |-> <<>>], pos[c], pos[c], NoErr, 0)
       ELSE /\ cursorLock' = [cursorLock EXCEPT ![c] = t]
            /\ startPos' = [startPos EXCEPT ![t] = pos[c]]
            /\ pc' = [pc EXCEPT ![t] = "advancing"]
            /\ UNCHANGED <<strong, destroyed, call, abandoned, acc, result,
                           endPos, engineErr, errPos, snapshot, attempts,
                           joinErr, taskRuntime, made, pos, sessionLock>>
    /\ UNCHANGED <<resultLen, opened, sessVars, histVars, held, cursorSession,
                   engineSession, client, rtVars>>

\* Mutant: next_batch takes the session lock first and the cursor lock second,
\* while next and collect keep the order cursor, session.
SessionCursorLock_SessionFirst(t) ==
    LET c == call[t].target
        s == SessionOf(c) IN
    /\ pc[t] = "spawned"
    /\ call[t].op \in CursorOps
    /\ c \in SessionCursors
    /\ IF call[t].op # "next_batch"
       THEN /\ CursorLockFree(c)
            /\ cursorLock' = [cursorLock EXCEPT ![c] = t]
            /\ pc' = [pc EXCEPT ![t] = "cursorLocked"]
            /\ UNCHANGED <<sessionLock, startPos>>
       ELSE IF sessionLock[s] # t
       THEN /\ SessionLockFree(s)
            /\ sessionLock' = [sessionLock EXCEPT ![s] = t]
            /\ UNCHANGED <<pc, cursorLock, startPos>>
       ELSE /\ CursorLockFree(c)
            /\ cursorLock' = [cursorLock EXCEPT ![c] = t]
            /\ startPos' = [startPos EXCEPT ![t] = pos[c]]
            /\ pc' = [pc EXCEPT ![t] = "advancing"]
            /\ UNCHANGED sessionLock
    /\ UNCHANGED <<call, abandoned, acc, result, endPos, engineErr, errPos,
                   snapshot, attempts, joinErr, taskRuntime, made, cursorVars,
                   sessVars, histVars, ownVars, rtVars>>

\* CoreSessionCursor: cursor.lock().await, the first of its two locks.
SessionCursorLock(t) ==
    LET c == call[t].target IN
    /\ pc[t] = "spawned"
    /\ call[t].op \in CursorOps
    /\ c \in SessionCursors
    /\ CursorLockFree(c)
    /\ cursorLock' = [cursorLock EXCEPT ![c] = t]
    /\ pc' = [pc EXCEPT ![t] = "cursorLocked"]
    /\ UNCHANGED <<call, abandoned, acc, result, startPos, endPos, engineErr,
                   errPos, snapshot, attempts, joinErr, taskRuntime, made,
                   sessionLock, cursorVars, sessVars, histVars, ownVars,
                   rtVars>>

\* Mutant: the session cursor advances without taking the session lock.
SessionCursorSessionLock_Skipped(t) ==
    LET c == call[t].target IN
    /\ pc[t] = "cursorLocked"
    /\ IF EmptyLoop(t)
       THEN Finish(t, [kind |-> "Ok", docs |-> <<>>], pos[c], pos[c], NoErr, 0)
       ELSE /\ startPos' = [startPos EXCEPT ![t] = pos[c]]
            /\ pc' = [pc EXCEPT ![t] = "advancing"]
            /\ UNCHANGED <<strong, destroyed, call, abandoned, acc, result,
                           endPos, engineErr, errPos, snapshot, attempts,
                           joinErr, taskRuntime, made, pos, lockVars>>
    /\ UNCHANGED <<resultLen, opened, sessVars, histVars, held, cursorSession,
                   engineSession, client, rtVars>>

\* CoreSessionCursor: session.lock().await, taken while the cursor guard is held.
SessionCursorSessionLock(t) ==
    LET c == call[t].target
        s == SessionOf(c) IN
    /\ pc[t] = "cursorLocked"
    /\ SessionLockFree(s)
    /\ IF EmptyLoop(t)
       THEN Finish(t, [kind |-> "Ok", docs |-> <<>>], pos[c], pos[c], NoErr, 0)
       ELSE /\ sessionLock' = [sessionLock EXCEPT ![s] = t]
            /\ startPos' = [startPos EXCEPT ![t] = pos[c]]
            /\ pc' = [pc EXCEPT ![t] = "advancing"]
            /\ UNCHANGED <<strong, destroyed, call, abandoned, acc, result,
                           endPos, engineErr, errPos, snapshot, attempts,
                           joinErr, taskRuntime, made, pos, cursorLock>>
    /\ UNCHANGED <<resultLen, opened, sessVars, histVars, held, cursorSession,
                   engineSession, client, rtVars>>

\* Mutant: the batch loop runs once more than batch_size (0..=batch_size).
CallFull_OneMore(t, docs) ==
    \/ call[t].op = "next"
    \/ call[t].op = "next_batch" /\ Len(docs) = call[t].n + 1

\* The call has all the documents it asked for.
CallFull(t, docs) ==
    \/ call[t].op = "next"
    \/ call[t].op = "next_batch" /\ Len(docs) = call[t].n

\* Mutant: every cursor method raises StopAsyncIteration at the end of the results.
OnExhausted_StopForAll(t) == [kind |-> Stop, docs |-> <<>>]

\* Mutant: next() reports the end of the results as a database error.
OnExhausted_AsError(t) ==
    IF call[t].op = "next"
    THEN [kind |-> "PyMongoError", docs |-> <<>>]
    ELSE [kind |-> "Ok", docs |-> acc[t]]

\* What a call resolves with when the engine reports no more results.
OnExhausted(t) ==
    IF call[t].op = "next"
    THEN [kind |-> Stop, docs |-> <<>>]
    ELSE [kind |-> "Ok", docs |-> acc[t]]

\* Mutant: a document is fetched and dropped before the one handed out.
NextPos_Skips(c) == Min(pos[c] + 2, resultLen[c])

\* Where the engine stands after handing out one document.
NextPos(c) == pos[c] + 1

\* Mutant: between the advances of one call the cursor stays where it was.
AdvanceDoc_NoAdvance(t) ==
    LET c == call[t].target
        docs == Append(acc[t], ResultSet(c)[pos[c] + 1]) IN
    /\ pc[t] = "advancing"
    /\ pos[c] < resultLen[c]
    /\ IF CallFull(t, docs)
       THEN Finish(t, [kind |-> "Ok", docs |-> docs], startPos[t], NextPos(c),
                   engineErr[t], errPos[t])
       ELSE /\ acc' = [acc EXCEPT ![t] = docs]
            /\ UNCHANGED <<strong, destroyed, pc, call, abandoned, result,
                           startPos, endPos, engineErr, errPos, snapshot,
                           attempts, joinErr, taskRuntime, made, lockVars, pos>>
    /\ UNCHANGED <<resultLen, opened, sessVars, histVars, held, cursorSession,
                   engineSession, client, rtVars>>

\* Mutant: a session cursor call takes the session lock anew for each advance
\* and drops it after the advance.
AdvanceDoc_RelocksSession(t) ==
    LET c == call[t].target
        docs == Append(acc[t], ResultSet(c)[pos[c] + 1]) IN
    /\ pc[t] = "advancing"
    /\ pos[c] < resultLen[c]
    /\ IF CallFull(t, docs)
       THEN Finish(t, [kind |-> "Ok", docs |-> docs], startPos[t], NextPos(c),
                   engineErr[t], errPos[t])
       ELSE /\ acc' = [acc EXCEPT ![t] = docs]
            /\ pos' = [pos EXCEPT ![c] = NextPos(c)]
            /\ IF c \in SessionCursors
               THEN /\ sessionLock' = [sessionLock EXCEPT ![SessionOf(c)] = NoTask]
                    /\ pc' = [pc EXCEPT ![t] = "cursorLocked"]
               ELSE UNCHANGED <<sessionLock, pc>>
            /\ UNCHANGED <<strong, destroyed, call, abandoned, result,
                           startPos, endPos, engineErr, errPos, snapshot,
                           attempts, joinErr, taskRuntime, made, cursorLock>>
    /\ UNCHANGED <<resultLen, opened, sessVars, histVars, held, cursorSession,
                   engineSession, client, rtVars>>

\* try_next / advance + deserialize_current / next(session) yields a document.
AdvanceDoc(t) ==
    LET c == call[t].target
        docs == Append(acc[t], ResultSet(c)[pos[c] + 1]) IN
    /\ pc[t] = "advancing"
    /\ pos[c] < resultLen[c]
    /\ IF CallFull(t, docs)
       THEN Finish(t, [kind |-> "Ok", docs |-> docs], startPos[t], NextPos(c),
                   engineErr[t], errPos[t])
       ELSE /\ acc' = [acc EXCEPT ![t] = docs]
            /\ pos' = [pos EXCEPT ![c] = NextPos(c)]
            /\ UNCHANGED <<strong, destroyed, pc, call, abandoned, result,
                           startPos, endPos, engineErr, errPos, snapshot,
                           attempts, joinErr, taskRuntime, made, lockVars>>
    /\ UNCHANGED <<resultLen, opened, sessVars, histVars, held, cursorSession,
                   engineSession, client, rtVars>>

\* The engine reports no more results: Ok(None) / advance() = false.
AdvanceNone(t) ==
    LET c == call[t].target IN
    /\ pc[t] = "advancing"
    /\ pos[c] = resultLen[c]
    /\ Finish(t, OnExhausted(t), startPos[t], pos[c], engineErr[t], errPos[t])
    /\ UNCHANGED <<resultLen, opened, sessVars, histVars, held, cursorSession,
                   engineSession, client, rtVars>>

\* Mutant: the error is swallowed and the loop goes on to the next advance.
AdvanceErr_Retry(t, e, p) ==
    LET c == call[t].target IN
    /\ pc[t] = "advancing"
    /\ pos[c] < resultLen[c]
    /\ p = pos[c]
    /\ engineErr[t] = NoErr
    /\ engineErr' = [engineErr EXCEPT ![t] = e]
    /\ errPos' = [errPos EXCEPT ![t] = p]
    /\ UNCHANGED <<pc, call, abandoned, acc, result, startPos, endPos,
                   snapshot, attempts, joinErr, taskRuntime, made, lockVars,
                   cursorVars, sessVars, histVars, ownVars, rtVars>>

\* Mutant: at an error the cursor is put back where the call found it.
AdvanceErr_Rewinds(t, e, p) ==
    LET c == call[t].target IN
    /\ pc[t] = "advancing"
    /\ pos[c] < resultLen[c]
    /\ p = startPos[t]
    /\ Finish(t, [kind |-> Classify(e), docs |-> <<>>], startPos[t], p, e, p)
    /\ UNCHANGED <<resultLen, opened, sessVars, histVars, held, cursorSession,
                   engineSession, client, rtVars>>

\* The engine fails to fetch: try_next / advance / next(session) returns
\* Err(e); `?` leaves the future with e, classified.  Where the engine leaves
\* its cursor at an error is the engine's business: anywhere from where it
\* stood (the fetch can be tried again) to the end (the cursor is dead).
AdvanceErr(t, e, p) ==
    LET c == call[t].target IN
    /\ pc[t] = "advancing"
    /\ pos[c] < resultLen[c]
    /\ p \in pos[c]..resultLen[c]
    /\ Finish(t, [kind |-> Classify(e), docs |-> <<>>], startPos[t], p, e, p)
    /\ UNCHANGED <<resultLen, opened, sessVars, histVars, held, cursorSession,
                   engineSession, client, rtVars>>

\* CoreCursor::next_batch: advance() succeeded and deserialize_current() returns
\* Err: the cursor stands on the document that could not be handed out.
DeserializeErr(t) ==
    LET c == call[t].target
        e == EngineErr("BsonDeserialization", "", 0) IN
    /\ pc[t] = "advancing"
    /\ call[t].op = "next_batch"
    /\ c \in PlainCursors
    /\ pos[c] < resultLen[c]
    /\ Finish(t, [kind |-> Classify(e), docs |-> <<>>], startPos[t], pos[c] + 1,
              e, pos[c] + 1)
    /\ UNCHANGED <<resultLen, opened, sessVars, histVars, held, cursorSession,
                   engineSession, client, rtVars>>

\* ------------------------------------------------------ specifications
\* Session operations and the advances of one session cursor, on one session.
Init == InitObjects /\ opened = {"sc1"} /\ observed = {} /\ InitHandles({"s1"})

Next ==
    \/ \E t \in Tasks : DispatchTxnOp(t, "s1", "start_transaction")
    \/ \E t \in Tasks : DispatchFacadeOp(t, "s1", "insert_one_with_session")
    \/ \E t \in Tasks : DispatchCursorOp(t, "sc1", "collect", 0)
    \/ \E t \in Tasks : Abandon(t)
    \/ \E t \in Tasks : Return(t)
    \/ \E t \in Tasks : SessionOpLock(t)
    \/ \E t \in Tasks : SessionOpOk(t)
    \/ \E t \in Tasks, e \in SessionEngineErrors : SessionOpErr(t, e)
    \/ \E t \in Tasks : SessionCursorLock(t)
    \/ \E t \in Tasks : SessionCursorSessionLock(t)
    \/ \E t \in Tasks : AdvanceDoc(t)
    \/ \E t \in Tasks : AdvanceNone(t)
    \/ \E t \in Tasks, e \in CursorEngineErrors, p \in 0..MaxDocs : AdvanceErr(t, e, p)

Spec == Init /\ [][Next]_vars

\* Two session cursors opened under one session, and a facade operation on it.
InitShared ==
    InitObjects /\ opened = SessionCursors /\ observed = {} /\ InitHandles({"s1"})

NextShared ==
    \/ \E t \in Tasks, c \in SessionCursors, op \in {"next", "collect"} :
          DispatchCursorOp(t, c, op, 0)
    \/ \E t \in Tasks, c \in SessionCursors :
          DispatchCursorOp(t, c, "next_batch", MaxBatch)
    \/ \E t \in Tasks : DispatchFacadeOp(t, "s1", "insert_one_with_session")
    \/ \E t \in Tasks : Return(t)
    \/ \E t \in Tasks : SessionOpLock(t)
    \/ \E t \in Tasks : SessionOpOk(t)
    \/ \E t \in Tasks : SessionCursorLock(t)
    \/ \E t \in Tasks : SessionCursorSessionLock(t)
    \/ \E t \in Tasks : AdvanceDoc(t)
    \/ \E t \in Tasks : AdvanceNone(t)
    \/ \E t \in Tasks, e \in CursorEngineErrors, p \in 0..MaxDocs : AdvanceErr(t, e, p)

SpecShared == InitShared /\ [][NextShared]_vars

\* Every cursor method, on a session-free cursor or on a session cursor.
InitCursor ==
    /\ InitObjects
    /\ \E c \in {"c1", "sc1"} : opened = {c}
    /\ observed = {}
    /\ InitHandles({"s1"})

NextCursor ==
    \/ \E t \in Tasks, c \in {"c1", "sc1"}, op \in CursorOps, n \in 0..MaxBatch :
          DispatchCursorOp(t, c, op, n)
    \/ \E t \in Tasks : Abandon(t)
    \/ \E t \in Tasks : Return(t)
    \/ \E t \in Tasks : CursorLock(t)
    \/ \E t \in Tasks : SessionCursorLock(t)
    \/ \E t \in Tasks : SessionCursorSessionLock(t)
    \/ \E t \in Tasks : AdvanceDoc(t)
    \/ \E t \in Tasks : AdvanceNone(t)
    \/ \E t \in Tasks, e \in CursorEngineErrors, p \in 0..MaxDocs : AdvanceErr(t, e, p)
    \/ \E t \in Tasks : DeserializeErr(t)

SpecCursor == InitCursor /\ [][NextCursor]_vars

\* Sequences of next() calls, the caller keeping count of what it receives.
InitNext ==
    /\ InitObjects
    /\ \E c \in {"c1", "sc1"} : opened = {c}
    /\ observed = opened
    /\ InitHandles({"s1"})

NextNext ==
    \/ \E t \in Tasks, c \in {"c1", "sc1"} : DispatchCursorOp(t, c, "next", 0)
    \/ \E t \in Tasks : Abandon(t)
    \/ \E t \in Tasks : Return(t)
    \/ \E t \in Tasks : CursorLock(t)
    \/ \E t \in Tasks : SessionCursorLock(t)
    \/ \E t \in Tasks : SessionCursorSessionLock(t)
    \/ \E t \in Tasks : AdvanceDoc(t)
    \/ \E t \in Tasks : AdvanceNone(t)
    \/ \E t \in Tasks, e \in CursorEngineErrors, p \in 0..MaxDocs : AdvanceErr(t, e, p)

SpecNext == InitNext /\ [][NextNext]_vars

\* One session shared by the methods of a session cursor, a facade operation
\* and a transaction operation, with calls the caller drops while pending.
NextOrder ==
    \/ \E t \in Tasks : DispatchTxnOp(t, "s1", "commit_transaction")
    \/ \E t \in Tasks : DispatchFacadeOp(t, "s1", "insert_one_with_session")
    \/ \E t \in Tasks : DispatchCursorOp(t, "sc1", "next", 0)
    \/ \E t \in Tasks : DispatchCursorOp(t, "sc1", "next_batch", MaxBatch)
    \/ \E t \in Tasks : DispatchCursorOp(t, "sc1", "collect", 0)
    \/ \E t \in Tasks : Abandon(t)
    \/ \E t \in Tasks : Return(t)
    \/ \E t \in Tasks : SessionOpLock(t)
    \/ \E t \in Tasks : SessionOpOk(t)
    \/ \E t \in Tasks : SessionCursorLock(t)
    \/ \E t \in Tasks : SessionCursorSessionLock(t)
    \/ \E t \in Tasks : AdvanceDoc(t)
    \/ \E t \in Tasks : AdvanceNone(t)

SpecOrder == Init /\ [][NextOrder]_vars

\* Sequences of next, next_batch and collect calls on one cursor, the caller
\* keeping count of what it receives.
NextDeliver ==
    \/ \E t \in Tasks, c \in {"c1", "sc1"}, op \in {"next", "collect"} :
          DispatchCursorOp(t, c, op, 0)
    \/ \E t \in Tasks, c \in {"c1", "sc1"}, n \in 0..MaxBatch :
          DispatchCursorOp(t, c, "next_batch", n)
    \/ \E t \in Tasks : Abandon(t)
    \/ \E t \in Tasks : Return(t)
    \/ \E t \in Tasks : CursorLock(t)
    \/ \E t \in Tasks : SessionCursorLock(t)
    \/ \E t \in Tasks : SessionCursorSessionLock(t)
    \/ \E t \in Tasks : AdvanceDoc(t)
    \/ \E t \in Tasks : AdvanceNone(t)
    \/ \E t \in Tasks, p \in 0..MaxDocs :
          AdvanceErr(t, EngineErr("Io", "", 0), p)

SpecDeliver == InitNext /\ [][NextDeliver]_vars

\* next() calls the caller may drop while they are pending, on a cursor the
\* engine reports no error for.
NextAbandon ==
    \/ \E t \in Tasks, c \in {"c1", "sc1"} : DispatchCursorOp(t, c, "next", 0)
    \/ \E t \in Tasks : Abandon(t)
    \/ \E t \in Tasks : Return(t)
    \/ \E t \in Tasks : CursorLock(t)
    \/ \E t \in Tasks : SessionCursorLock(t)
    \/ \E t \in Tasks : SessionCursorSessionLock(t)
    \/ \E t \in Tasks : AdvanceDoc(t)
    \/ \E t \in Tasks : AdvanceNone(t)

SpecAbandon == InitNext /\ [][NextAbandon]_vars

\* Operations on one session and its cursor, any of which may panic.
NextPanic ==
    \/ \E t \in Tasks : DispatchTxnOp(t, "s1", "start_transaction")
    \/ \E t \in Tasks : DispatchCursorOp(t, "sc1", "next", 0)
    \/ \E t \in Tasks : Return(t)
    \/ \E t \in Tasks : SessionOpLock(t)
    \/ \E t \in Tasks : SessionOpOk(t)
    \/ \E t \in Tasks : SessionCursorLock(t)
    \/ \E t \in Tasks : SessionCursorSessionLock(t)
    \/ \E t \in Tasks : AdvanceDoc(t)
    \/ \E t \in Tasks : AdvanceNone(t)
    \/ \E t \in Tasks : TaskPanic(t)

SpecPanic == Init /\ [][NextPanic]_vars

\* Calls on one session object and one cursor object, those the caller
\* boundary refuses included.
InitBoundary == InitObjects /\ opened = {"c1"} /\ observed = {} /\ InitHandles({"s1"})

NextBoundary ==
    \/ \E t \in Tasks : DispatchTxnOp(t, "s1", "start_transaction")
    \/ \E t \in Tasks : RejectTxnOp(t, "s1", "start_transaction")
    \/ \E t \in Tasks : DispatchFacadeOp(t, "s1", "insert_one_with_session")
    \/ \E t \in Tasks : RejectFacadeOp(t, "s1", "insert_one_with_session")
    \/ \E t \in Tasks : DispatchCursorOp(t, "c1", "next", 0)
    \/ \E t \in Tasks : RejectCursorOp(t, "c1", "next", 0)
    \/ \E t \in Tasks : Return(t)
    \/ \E t \in Tasks : SessionOpLock(t)
    \/ \E t \in Tasks : SessionOpOk(t)
    \/ \E t \in Tasks, e \in SessionEngineErrors : SessionOpErr(t, e)
    \/ \E t \in Tasks : CursorLock(t)
    \/ \E t \in Tasks : AdvanceDoc(t)
    \/ \E t \in Tasks : AdvanceNone(t)

SpecBoundary == InitBoundary /\ [][NextBoundary]_vars

\* Transaction, facade and session cursor calls on one session, under a fair
\* scheduler and an engine that answers every call.
NextLive ==
    \/ \E t \in Tasks : DispatchTxnOp(t, "s1", "start_transaction")
    \/ \E t \in Tasks : DispatchFacadeOp(t, "s1", "insert_one_with_session")
    \/ \E t \in Tasks : DispatchCursorOp(t, "sc1", "next_batch", MaxBatch)
    \/ \E t \in Tasks : Return(t)
    \/ \E t \in Tasks : SessionOpLock(t)
    \/ \E t \in Tasks : SessionOpOk(t)
    \/ \E t \in Tasks, e \in SessionEngineErrors : SessionOpErr(t, e)
    \/ \E t \in Tasks : SessionCursorLock(t)
    \/ \E t \in Tasks : SessionCursorSessionLock(t)
    \/ \E t \in Tasks : AdvanceDoc(t)
    \/ \E t \in Tasks : AdvanceNone(t)
    \/ \E t \in Tasks, e \in CursorEngineErrors, p \in 0..MaxDocs : AdvanceErr(t, e, p)

\* The engine call task t is in returns, with a value or with an error.
EngineResolves(t) ==
    \/ SessionOpOk(t)
    \/ \E e \in SessionEngineErrors : SessionOpErr(t, e)
    \/ AdvanceDoc(t)
    \/ AdvanceNone(t)
    \/ \E e \in CursorEngineErrors, p \in 0..MaxDocs : AdvanceErr(t, e, p)

\* Task t is given the lock it waits for.
LockStep(t) ==
    \/ SessionOpLock(t)
    \/ SessionCursorLock(t)
    \/ SessionCursorSessionLock(t)

\* tokio's Mutex hands the lock to its waiters in the order they asked, so a
\* waiter is not passed over for ever (strong fairness of the lock steps); a
\* task that can run is polled, and an engine call resolves (weak fairness).
FairLive ==
    \A t \in Tasks :
        /\ SF_vars(LockStep(t))
        /\ WF_vars(EngineResolves(t))

SpecLive == Init /\ [][NextLive]_vars /\ FairLive

\* Two sessions and two session-free cursors, used side by side.
InitDistinct ==
    InitObjects /\ opened = PlainCursors /\ observed = {} /\ InitHandles(Sessions)

NextDistinct ==
    \/ \E t \in Tasks, s \in Sessions : DispatchFacadeOp(t, s, "insert_one_with_session")
    \/ \E t \in Tasks, c \in PlainCursors : DispatchCursorOp(t, c, "next", 0)
    \/ \E t \in Tasks : Return(t)
    \/ \E t \in Tasks : SessionOpLock(t)
    \/ \E t \in Tasks : SessionOpOk(t)
    \/ \E t \in Tasks : CursorLock(t)
    \/ \E t \in Tasks : AdvanceDoc(t)
    \/ \E t \in Tasks : AdvanceNone(t)

SpecDistinct == InitDistinct /\ [][NextDistinct]_vars

\* Two sessions, the session cursors opened under them, and a caller that
\* drops handles and pending calls.
InitOwner ==
    InitObjects /\ opened = {} /\ observed = {} /\ InitHandles(Sessions)

\* find_with_session up to spawn(fut).  A behaviour opens one session cursor,
\* under either session.
DispatchFind(t, s) ==
    /\ FreshCursors = SessionCursors
    /\ \A u \in Tasks : call[u].op # "find_with_session"
    /\ DispatchFacadeOp(t, s, "find_with_session")

NextOwner ==
    \/ \E t \in Tasks, s \in Sessions : DispatchFind(t, s)
    \/ \E t \in Tasks, c \in SessionCursors : DispatchCursorOp(t, c, "next", 0)
    \/ \E t \in Tasks : Abandon(t)
    \/ \E t \in Tasks : Return(t)
    \/ \E c \in SessionCursors : DropCursorHandle(c)
    \/ \E s \in Sessions : DropSessionHandle(s)
    \/ \E t \in Tasks : SessionOpLock(t)
    \/ \E t \in Tasks : FindOk(t)
    \/ \E t \in Tasks : SessionOpErr(t, EngineErr("Transaction", "", 0))
    \/ \E t \in Tasks : SessionCursorLock(t)
    \/ \E t \in Tasks : SessionCursorSessionLock(t)
    \/ \E t \in Tasks : AdvanceDoc(t)
    \/ \E t \in Tasks : AdvanceNone(t)

SpecOwner == InitOwner /\ [][NextOwner]_vars

\* One session: an operation that opens and drains a cursor in one call, one
\* that opens a session cursor for the caller to advance, and a commit.
InitOpen == InitObjects /\ opened = {} /\ observed = {} /\ InitHandles({"s1"})

NextOpen ==
    \/ \E t \in Tasks : DispatchFacadeOp(t, "s1", "find_many_with_session")
    \/ \E t \in Tasks : DispatchFind(t, "s1")
    \/ \E t \in Tasks : DispatchTxnOp(t, "s1", "commit_transaction")
    \/ \E t \in Tasks, c \in SessionCursors : DispatchCursorOp(t, c, "next", 0)
    \/ \E t \in Tasks : Return(t)
    \/ \E t \in Tasks : SessionOpLock(t)
    \/ \E t \in Tasks : SessionOpOk(t)
    \/ \E t \in Tasks : SessionOpErr(t, EngineErr("Transaction", "", 0))
    \/ \E t \in Tasks : FindOk(t)
    \/ \E t \in Tasks : FindManyOpen(t)
    \/ \E t \in Tasks : FindManyDrain(t)
    \/ \E t \in Tasks : FindManyDrainErr(t, EngineErr("Transaction", "", 0))
    \/ \E t \in Tasks : SessionCursorLock(t)
    \/ \E t \in Tasks : SessionCursorSessionLock(t)
    \/ \E t \in Tasks : AdvanceDoc(t)
    \/ \E t \in Tasks : AdvanceNone(t)

SpecOpen == InitOpen /\ [][NextOpen]_vars

\* A process that has not used the bridge yet: no Runtime, no handle.
InitFresh ==
    /\ InitObjects
    /\ opened = {}
    /\ observed = {}
    /\ held = {}
    /\ cursorSession = [c \in SessionCursors |-> NoSession]
    /\ engineSession = [c \in SessionCursors |-> NoSession]
    /\ strong = [r \in Resources |-> 0]
    /\ destroyed = {}
    /\ client = FALSE
    /\ runtime = NoRuntime
    /\ created = 0

\* The bridge from its first use on: session-free calls, their engine
\* outcomes, and tasks that panic.
NextBridge ==
    \/ \E t \in Tasks, op \in PlainOps : DispatchPlainOp(t, op)
    \/ \E t \in Tasks : Abandon(t)
    \/ \E t \in Tasks : Return(t)
    \/ \E t \in Tasks : PlainOpStart(t)
    \/ \E t \in Tasks : PlainOpOk(t)
    \/ \E t \in Tasks, e \in PlainEngineErrors : PlainOpErr(t, e)
    \/ \E t \in Tasks : TaskPanic(t)

SpecBridge == InitFresh /\ [][NextBridge]_vars

\* The classifier on every engine error, at the end of a facade operation.
NextClassify ==
    \/ \E t \in Tasks : DispatchFacadeOp(t, "s1", "insert_one_with_session")
    \/ \E t \in Tasks : Return(t)
    \/ \E t \in Tasks : SessionOpLock(t)
    \/ \E t \in Tasks : SessionOpOk(t)
    \/ \E t \in Tasks, e \in AllEngineErrors : SessionOpErr(t, e)

SpecClassify == Init /\ [][NextClassify]_vars

\* One commit and calls of next on the open cursor, with the failures the
\* engine reports to them and tasks that panic.
NextOutcome ==
    \/ \E t \in Tasks : DispatchTxnOp(t, "s1", "commit_transaction")
    \/ \E t \in Tasks, c \in {"c1", "sc1"} : DispatchCursorOp(t, c, "next", 0)
    \/ \E t \in Tasks : Return(t)
    \/ \E t \in Tasks : SessionOpLock(t)
    \/ \E t \in Tasks : SessionOpOk(t)
    \/ \E t \in Tasks, e \in SessionEngineErrors : SessionOpErr(t, e)
    \/ \E t \in Tasks : CursorLock(t)
    \/ \E t \in Tasks : SessionCursorLock(t)
    \/ \E t \in Tasks : SessionCursorSessionLock(t)
    \/ \E t \in Tasks : AdvanceDoc(t)
    \/ \E t \in Tasks : AdvanceNone(t)
    \/ \E t \in Tasks, e \in CursorEngineErrors, p \in 0..MaxDocs :
          AdvanceErr(t, e, p)
    \/ \E t \in Tasks : TaskPanic(t)

SpecOutcome == InitNext /\ [][NextOutcome]_vars

\* -------------------------------------------------------------- claims
\* Task t is inside an engine call that was given session s.
InEngineOn(t, s) ==
    \/ pc[t] \in {"engine", "draining"} /\ call[t].target = s
    \/ pc[t] = "advancing" /\ IsSessionCursorTask(t) /\ SessionOf(call[t].target) = s

\* Task t is inside an advance of cursor c, from its cursor.lock() to its result.
AdvancingOn(t, c) ==
    /\ pc[t] \in {"cursorLocked", "advancing"}
    /\ call[t].target = c

\* C1: in every reachable state at most one task is inside an engine call on a
\* given session, whatever mix of facade operations, transaction operations
\* and session cursor advances shares the session.
C1_SessionMutualExclusion ==
    \A s \in Sessions : \A t, u \in Tasks :
        InEngineOn(t, s) /\ InEngineOn(u, s) => t = u

\* A session cursor advance holds the session while a transaction operation
\* on the same session is spawned and waits for it.
C1_Witness ==
    \E t, u \in Tasks :
        /\ pc[t] = "advancing" /\ IsSessionCursorTask(t)
        /\ pc[u] = "spawned" /\ call[u].op \in TxnOps
        /\ sessionLock["s1"] = t

\* C2: whenever no session operation is inside its engine call, the session
\* state is the one left by running the operations one after the other in the
\* order in which they acquired the session lock.
C2_SerialInLockOrder ==
    \A s \in Sessions :
        (\A t \in Tasks : ~(pc[t] = "engine" /\ call[t].target = s))
            => sessionState[s] = serialState[s]

\* Two different operations were pending on the session together and both
\* have returned.
C2_Witness ==
    \E t, u \in Tasks :
        /\ t # u
        /\ pc[t] = "done" /\ pc[u] = "done"
        /\ call[t].op \in SessionOps /\ call[u].op \in SessionOps
        /\ call[t].op # call[u].op
        /\ sessionState["s1"] = ApplyOp(ApplyOp(FreshSession, call[t].op), call[u].op)

\* C3: the session lock is held only by a task that is inside its engine call
\* on that session; once an operation has returned, with a value or with an
\* engine error, it holds no session lock.
C3_SessionLockReleased ==
    \A s \in Sessions :
        sessionLock[s] # NoTask => InEngineOn(sessionLock[s], s)

\* A session operation has returned an engine error and the lock is free.
C3_Witness ==
    \E t \in Tasks :
        /\ pc[t] = "done"
        /\ call[t].op \in SessionOps
        /\ engineErr[t] # NoErr
        /\ result[t].kind \in ErrorKinds
        /\ sessionLock[call[t].target] = NoTask

\* C4: a task advancing a session cursor holds the cursor's lock and the
\* session's lock, and no other task is inside an engine call on that session
\* (in particular no other session cursor of the session advances).
C4_SessionCursorHoldsBothLocks ==
    \A t \in Tasks :
        (pc[t] = "advancing" /\ IsSessionCursorTask(t)) =>
            LET c == call[t].target
                s == SessionOf(c) IN
            /\ cursorLock[c] = t
            /\ sessionLock[s] = t
            /\ \A u \in Tasks : u # t => ~InEngineOn(u, s)

\* One session cursor is in the middle of a collect while a call on the other
\* session cursor of the same session holds its cursor lock and waits.
C4_Witness ==
    \E t, u \in Tasks :
        /\ pc[t] = "advancing" /\ call[t].target = "sc1" /\ Len(acc[t]) >= 1
        /\ pc[u] = "cursorLocked" /\ call[u].target = "sc2"

\* C5: at most one task is inside an advance of a given cursor, and it holds
\* the cursor's lock from its first step to its result.
C5_CursorAdvanceSerialized ==
    \A c \in Cursors : \A t, u \in Tasks :
        /\ AdvancingOn(t, c) => cursorLock[c] = t
        /\ AdvancingOn(t, c) /\ AdvancingOn(u, c) => t = u

\* A collect is in the middle of its advances while a second call on the same
\* cursor is spawned and waits for the cursor lock.
C5_Witness ==
    \E t, u \in Tasks :
        /\ pc[t] = "advancing" /\ call[t].target = "c1" /\ Len(acc[t]) >= 1
        /\ pc[u] = "spawned" /\ call[u].target = "c1"

\* A next() result the caller is about to receive on a cursor that has already
\* signalled exhaustion to it is an exhaustion signal again.
ExhaustionAbsorbing(c) ==
    \A t \in Tasks :
        (pc[t] = "done" /\ call[t].target = c /\ stopSeen[c])
            => result[t].kind = Stop

\* C6 as stated: over next() calls only, the caller has received exactly N
\* documents when it receives the first exhaustion signal, and exhaustion is
\* absorbing.
C6_Original ==
    \A c \in observed :
        /\ stopSeen[c] => delivered[c] = resultLen[c]
        /\ ExhaustionAbsorbing(c)

\* C6 amended: the same, provided no next() call on the cursor was abandoned
\* by its caller after dispatch and none returned an engine error.
C6_NextSequence ==
    \A c \in observed :
        /\ (stopSeen[c] /\ ~abandonedOn[c] /\ ~errorSeen[c])
              => delivered[c] = resultLen[c]
        /\ ExhaustionAbsorbing(c)

\* The caller got both documents, then exhaustion, and is about to get
\* exhaustion again.
C6_Witness ==
    \E t \in Tasks :
        LET c == call[t].target IN
        /\ pc[t] = "done" /\ call[t].op = "next"
        /\ c \in observed
        /\ stopSeen[c] /\ ~abandonedOn[c] /\ ~errorSeen[c]
        /\ resultLen[c] = MaxDocs /\ delivered[c] = MaxDocs
        /\ result[t].kind = Stop

C8_Collect ==
    \A t \in Tasks :
        (pc[t] = "done" /\ call[t].op = "collect" /\ engineErr[t] = NoErr) =>
            LET c == call[t].target IN
            /\ result[t].kind = "Ok"
            /\ result[t].docs = SubSeq(ResultSet(c), startPos[t] + 1, resultLen[c])
            /\ endPos[t] = resultLen[c]

\* A collect on an empty result set has resolved Ok with no documents.
C8_Witness ==
    \E t \in Tasks :
        /\ pc[t] = "done" /\ call[t].op = "collect"
        /\ resultLen[call[t].target] = 0
        /\ result[t] = [kind |-> "Ok", docs |-> <<>>]

\* C9: next() resolves with StopAsyncIteration exactly when the engine
\* reported no more results, and with the classified error kind exactly when
\* the engine reported an error; the two never coincide.
C9_ExhaustionIsNotFailure ==
    \A t \in Tasks :
        (pc[t] = "done" /\ call[t].op = "next") =>
            LET c == call[t].target
                none == engineErr[t] = NoErr /\ startPos[t] = resultLen[c] IN
            /\ none <=> result[t].kind = Stop
            /\ engineErr[t] # NoErr <=> result[t].kind \in ErrorKinds
            /\ engineErr[t] # NoErr => result[t].kind = Classify(engineErr[t])
            /\ Stop \notin ErrorKinds

\* A next() has resolved with the exhaustion signal on a cursor whose caller
\* had received an engine error from an earlier next().
C9_Witness ==
    \E t \in Tasks :
        /\ pc[t] = "done" /\ call[t].op = "next" /\ result[t].kind = Stop
        /\ errorSeen[call[t].target]
        /\ delivered[call[t].target] >= 1

\* C10: a cursor call to which the engine reported an error resolves with
\* that error classified and with no documents, has left the cursor where the
\* engine left it at the error, and holds neither lock.
C10_AdvanceError ==
    \A t \in Tasks :
        (pc[t] = "done" /\ call[t].op \in CursorOps /\ engineErr[t] # NoErr) =>
            LET c == call[t].target IN
            /\ result[t] = [kind |-> Classify(engineErr[t]), docs |-> <<>>]
            /\ endPos[t] = errPos[t]
            /\ cursorLock[c] # t
            /\ c \in SessionCursors => sessionLock[SessionOf(c)] # t

\* A collect on a session cursor fetched a document and then met an error.
C10_Witness ==
    \E t \in Tasks :
        /\ pc[t] = "done" /\ call[t].op = "collect"
        /\ call[t].target \in SessionCursors
        /\ engineErr[t] # NoErr
        /\ Len(acc[t]) >= 1

\* Task t has returned from a facade operation to which the engine reported e.
FailedWith(t, e) ==
    /\ pc[t] = "done"
    /\ call[t].op \in FacadeOps
    /\ engineErr[t] = e

\* C17: a plain write error carrying the duplicate key code reaches the caller
\* as DuplicateKeyError and one carrying any other code as WriteError; an
\* insert_one that the engine accepted resolves Ok.
C17_WriteErrorCode ==
    \A t \in Tasks :
        /\ \A e \in AllEngineErrors :
              (FailedWith(t, e) /\ e.kind = "Write" /\ e.failure = "WriteError") =>
                  result[t].kind = IF e.code = DuplicateKeyCode
                                   THEN "DuplicateKeyError" ELSE "WriteError"
        /\ FailedWith(t, NoErr) => result[t].kind = "Ok"

\* Two insert_one calls went through the same session: one was accepted, the
\* other was refused by the server as a duplicate and raised DuplicateKeyError.
C17_Witness ==
    \E t, u \in Tasks :
        /\ FailedWith(u, NoErr) /\ call[u].op = "insert_one_with_session"
        /\ FailedWith(t, EngineErr("Write", "WriteError", DuplicateKeyCode))
        /\ call[t].op = "insert_one_with_session"
        /\ call[t].target = call[u].target
        /\ result[t].kind = "DuplicateKeyError"

\* C18: whatever the shape of the write failure (write error, write concern
\* error, bulk write), one that carries the duplicate key code reaches the
\* caller as DuplicateKeyError.
C18_AnyShapeDuplicateKey ==
    \A t \in Tasks : \A e \in AllEngineErrors :
        (FailedWith(t, e) /\ e.kind \in {"Write", "BulkWrite"}
                          /\ e.code = DuplicateKeyCode)
            => result[t].kind = "DuplicateKeyError"

\* C19: every engine error reaches the caller as exactly one class of the
\* closed set, the same class for the same error whichever call met it, and
\* an error of a kind without an arm of its own (a transaction error among
\* them) as the base class PyMongoError.
C19_ClassifierTotal ==
    \A t, u \in Tasks : \A e \in AllEngineErrors :
        FailedWith(t, e) =>
            /\ result[t].kind \in ErrorKinds
            /\ FailedWith(u, e) => result[u].kind = result[t].kind
            /\ e.kind \notin DedicatedKinds => result[t].kind = "PyMongoError"

\* Two calls met the same transaction error and both raised PyMongoError.
C19_Witness ==
    \E t, u \in Tasks :
        /\ t # u
        /\ FailedWith(t, EngineErr("Transaction", "", 0))
        /\ FailedWith(u, EngineErr("Transaction", "", 0))
        /\ result[t].kind = "PyMongoError"

\* The engine-side class of an error: its kind, and its shape where the
\* taxonomy names shapes.
NamedClass(e) ==
    IF e.kind \in {"Write", "GridFs"} THEN <<e.kind, e.failure>> ELSE <<e.kind, "">>

\* The engine-side classes C20 names.
NamedClasses ==
    {<<"InvalidArgument", "">>, <<"Authentication", "">>, <<"ServerSelection", "">>,
     <<"Write", "WriteConcernError">>, <<"BulkWrite", "">>, <<"Command", "">>,
     <<"GridFs", "FileNotFound">>, <<"GridFs", "Other">>}

\* The caller-visible class C20 gives each of them, the one of a bulk write
\* failure being passed in.
NamedKind(class, bulk) ==
    CASE class = <<"InvalidArgument", "">> -> "PyValueError"
      [] class = <<"Authentication", "">> -> "ConfigurationError"
      [] class = <<"ServerSelection", "">> -> "ServerSelectionError"
      [] class = <<"Write", "WriteConcernError">> -> "WriteConcernError"
      [] class = <<"BulkWrite", "">> -> bulk
      [] class = <<"Command", "">> -> "OperationFailure"
      [] class = <<"GridFs", "FileNotFound">> -> "NoFile"
      [] class = <<"GridFs", "Other">> -> "GridFSError"

\* Errors of two different named classes reach the caller as different classes.
NamedKindsDistinct ==
    \A t, u \in Tasks : \A e, f \in AllEngineErrors :
        (/\ FailedWith(t, e) /\ FailedWith(u, f)
         /\ NamedClass(e) \in NamedClasses /\ NamedClass(f) \in NamedClasses
         /\ NamedClass(e) # NamedClass(f))
            => result[t].kind # result[u].kind

\* C20 as stated: each named engine class reaches the caller as its own
\* class, a bulk write failure as a class that is not the one of a write error.
C20_Original ==
    \A t \in Tasks : \A e \in AllEngineErrors :
        (FailedWith(t, e) /\ NamedClass(e) \in NamedClasses) =>
            /\ result[t].kind = NamedKind(NamedClass(e), result[t].kind)
            /\ e.kind = "BulkWrite" => result[t].kind \notin {"WriteError", "DuplicateKeyError"}

\* C20 amended: the same, a bulk write failure reaching the caller as
\* WriteError, the class of a general write error.
C20_NamedKinds ==
    /\ \A t \in Tasks : \A e \in AllEngineErrors :
          (FailedWith(t, e) /\ NamedClass(e) \in NamedClasses) =>
              result[t].kind = NamedKind(NamedClass(e), "WriteError")
    /\ NamedKindsDistinct

\* A bulk write failure raised WriteError while a missing GridFS file raised
\* NoFile.
C20_Witness ==
    \E t, u \in Tasks :
        /\ FailedWith(t, EngineErr("BulkWrite", "", 121))
        /\ result[t].kind = "WriteError"
        /\ FailedWith(u, EngineErr("GridFs", "FileNotFound", 0))
        /\ result[u].kind = "NoFile"

\* The kinds a call can resolve with.
ResultKinds == {"Ok", Stop, "PyRuntimeError"} \cup ErrorKinds

\* C21: a task that panicked has returned to its caller, with PyRuntimeError
\* built from the JoinError; and every call that has returned resolved with a
\* value, the end of the results or an error, never with nothing.
C21_LostTaskIsReported ==
    \A t \in Tasks :
        /\ joinErr[t] # "none" => (pc[t] = "done" /\ result[t].kind = "PyRuntimeError")
        /\ pc[t] = "done" => result[t].kind \in ResultKinds
        /\ (pc[t] = "done" /\ joinErr[t] = "none" /\ engineErr[t] = NoErr)
              => result[t].kind \in {"Ok", Stop}

\* A task panicked inside its engine call and its caller has PyRuntimeError.
C21_Witness ==
    \E t \in Tasks :
        /\ pc[t] = "done"
        /\ joinErr[t] = "panicked"
        /\ attempts[t] = 1
        /\ result[t].kind = "PyRuntimeError"

\* C22: a call's engine operation is invoked at most once while the call is
\* pending, and exactly once by the time the call returns an engine failure,
\* which it returns as the class of that failure.
C22_OneAttempt ==
    \A t \in Tasks :
        /\ attempts[t] <= 1
        /\ (pc[t] = "done" /\ engineErr[t] # NoErr) =>
              /\ attempts[t] = 1
              /\ result[t].kind = Classify(engineErr[t])

\* An insert_one has failed in the engine and has returned the failure.
C22_Witness ==
    \E t \in Tasks :
        /\ pc[t] = "done"
        /\ call[t].op = "insert_one"
        /\ engineErr[t] = EngineErr("Write", "WriteError", DuplicateKeyCode)
        /\ result[t].kind = "DuplicateKeyError"
        /\ attempts[t] = 1

\* C23: at most one Runtime is ever made; once made it stays in the cell; and
\* every task was spawned on the Runtime in the cell.
C23_OneRuntime ==
    /\ created <= 1
    /\ runtime = created
    /\ \A t \in Tasks : pc[t] # "idle" => (taskRuntime[t] = runtime /\ runtime # NoRuntime)

\* Two calls were dispatched before any had finished, the first of them the
\* first use of the bridge, and both run on the one Runtime.
C23_Witness ==
    \E t, u \in Tasks :
        /\ t # u
        /\ ~client
        /\ pc[t] = "spawned" /\ pc[u] = "spawned"
        /\ taskRuntime[t] = taskRuntime[u]
        /\ created = 1

C25_EventuallyAcquires ==
    /\ \A t \in Tasks : (pc[t] \in {"spawned", "cursorLocked"}) ~> (pc[t] = "done")
    /\ []C2_SerialInLockOrder

\* A session cursor advance holds its cursor lock and waits for the session
\* lock, which a transaction operation in its engine call holds.
C25_Witness ==
    \E t, u \in Tasks :
        /\ pc[t] = "cursorLocked" /\ call[t].op = "next_batch"
        /\ pc[u] = "engine" /\ call[u].op = "start_transaction"
        /\ sessionLock[SessionOf(call[t].target)] = u

\* C26: an operation that has been dispatched on a session whose lock is free
\* can take it at once, whoever holds the lock of another session; likewise
\* for a session-free cursor, whose advance takes no session lock at all.
C26_DistinctDoNotBlock ==
    \A t \in Tasks :
        /\ (pc[t] = "spawned" /\ call[t].op \in SessionOps
                /\ sessionLock[call[t].target] = NoTask)
              => ENABLED SessionOpLock(t)
        /\ (pc[t] = "spawned" /\ call[t].op \in CursorOps
                /\ call[t].target \in PlainCursors
                /\ cursorLock[call[t].target] = NoTask)
              => ENABLED CursorLock(t)
        /\ (pc[t] = "advancing" /\ call[t].target \in PlainCursors)
              => \A s \in Sessions : sessionLock[s] # t

\* An operation on one session is dispatched while an operation on the other
\* session is inside its engine call, and is not kept waiting.
C26_Witness ==
    \E t, u \in Tasks :
        /\ pc[t] = "engine" /\ call[t].target = "s1"
        /\ pc[u] = "spawned" /\ call[u].target = "s2"
        /\ ENABLED SessionOpLock(u)

\* C28: as long as the engine call of an operation on a session is unresolved
\* the operation holds the session lock, and no other operation on that
\* session, facade, transaction or session cursor advance, can take it.
C28_HeldUntilResolved ==
    \A t \in Tasks :
        (pc[t] = "engine" /\ call[t].op \in SessionOps) =>
            LET s == call[t].target IN
            /\ sessionLock[s] = t
            /\ \A u \in Tasks \ {t} :
                  /\ (pc[u] = "spawned" /\ call[u].target = s) => ~ENABLED SessionOpLock(u)
                  /\ (pc[u] = "cursorLocked" /\ SessionOf(call[u].target) = s)
                        => ~ENABLED SessionCursorSessionLock(u)

\* While a facade operation is inside its engine call, a transaction
\* operation on the same session is kept waiting.
C28_Witness ==
    \E t, u \in Tasks :
        /\ pc[t] = "engine" /\ call[t].op \in FacadeOps
        /\ pc[u] = "spawned" /\ call[u].op \in TxnOps
        /\ call[u].target = call[t].target
        /\ ~ENABLED SessionOpLock(u)

\* The future of task t has been spawned and has not ended.
InFlight(t) ==
    pc[t] \in {"spawned", "cursorLocked", "advancing", "engine", "draining"}

\* The session and the cursor the future of task t works on.
Uses(t) ==
    LET h == call[t].target IN
    IF h \in SessionCursors THEN {h, cursorSession[h]}
    ELSE IF h \in Resources THEN {h} ELSE {}

\* C27: dropping the handle of a session or cursor cancels nothing.  No step
\* that takes a handle from the caller changes a task; a task leaves its
\* flight only with its guards dropped and, unless the caller had dropped the
\* call, with a result; what a task in flight works on is not destroyed; and a
\* destroyed session or cursor has no handle, no coroutine and no reference
\* left.
C27_DropDoesNotCancel ==
    /\ [](\A t \in Tasks : InFlight(t) => Uses(t) \cap destroyed = {})
    /\ [](\A r \in destroyed :
            ~CallerHolds(r) /\ ~Pinned(r, NoTask) /\ strong[r] = 0)
    /\ [][ /\ (held' # held \/ (opened \ opened') # {}) => taskVars' = taskVars
           /\ \A t \in Tasks :
                 (InFlight(t) /\ ~InFlight(t)') =>
                     /\ \A x \in Sessions : sessionLock'[x] # t
                     /\ \A c \in Cursors : cursorLock'[c] # t
                     /\ IF abandoned[t]
                        THEN pc'[t] = "idle"
                        ELSE pc'[t] = "done" /\ result'[t] # NoResult ]_vars

\* A call on a session cursor was dropped by the caller, who then dropped the
\* cursor handle and the session handle: the detached task is advancing.
C27_Witness ==
    \E t \in Tasks :
        /\ pc[t] = "advancing"
        /\ abandoned[t]
        /\ call[t].target \in SessionCursors
        /\ ~CallerHolds(call[t].target)
        /\ ~CallerHolds(cursorSession[call[t].target])

\* The object of session cursor c exists: in the caller's hands, in a pending
\* coroutine, or in the output of the task that made it.
CursorAlive(c) ==
    \/ c \in opened
    \/ Pinned(c, NoTask)
    \/ \E t \in Tasks : pc[t] = "done" /\ made[t] = c

\* The holders of session s: its handle object, the session cursor objects
\* opened under it, the futures in flight with a clone of its reference.
Holders(s) ==
    (IF CallerHolds(s) \/ Pinned(s, NoTask) THEN 1 ELSE 0)
    + Cardinality({c \in SessionCursors : CursorAlive(c) /\ cursorSession[c] = s})
    + Cardinality({t \in Tasks : InFlight(t) /\ s \in Uses(t)})

\* C29: the strong count of a session is the number of its holders, and the
\* session is destroyed exactly when it has none.
C29_LongestHolder ==
    \A s \in Sessions :
        /\ strong[s] = Holders(s)
        /\ s \in destroyed <=> Holders(s) = 0

\* The session handle is gone and nothing is in flight: a session cursor
\* opened under the session is its only holder.
C29_Witness ==
    \E s \in Sessions, c \in SessionCursors :
        /\ s \notin held
        /\ \A t \in Tasks : pc[t] = "idle"
        /\ c \in opened
        /\ cursorSession[c] = s
        /\ strong[s] = 1
        /\ s \notin destroyed

\* C30: the session a session cursor stores is the session its opening call
\* was given, it is never replaced, and a task advancing the cursor holds the
\* lock of that session.
C30_SameSession ==
    /\ [](\A c \in SessionCursors :
            cursorSession[c] # NoSession => cursorSession[c] = engineSession[c])
    /\ [](\A t \in Tasks :
            (pc[t] = "advancing" /\ call[t].target \in SessionCursors) =>
                sessionLock[engineSession[call[t].target]] = t)
    /\ [][\A c \in SessionCursors :
            cursorSession[c] # NoSession => cursorSession'[c] = cursorSession[c]]_vars

\* A cursor opened under the second session is advanced while the first
\* session is idle.
C30_Witness ==
    \E t \in Tasks :
        /\ pc[t] = "advancing"
        /\ call[t].target \in SessionCursors
        /\ engineSession[call[t].target] = "s2"
        /\ sessionLock["s2"] = t
        /\ sessionLock["s1"] = NoTask

\* Task t can take a step on its own: it is inside an engine call, or the
\* lock it asks for can be given to it.
CanProceed(t) ==
    \/ pc[t] \in {"advancing", "engine", "draining"}
    \/ ENABLED SessionOpLock(t)
    \/ ENABLED SessionCursorLock(t)
    \/ ENABLED SessionCursorSessionLock(t)

\* C31: the session lock is never held by a task that still asks for a lock,
\* a session cursor task past its first lock step holds the cursor lock, and
\* whenever operations are in flight one of them can proceed.
C31_NoDeadlock ==
    /\ \A t \in Tasks, s \in Sessions :
          sessionLock[s] = t => pc[t] \in {"advancing", "engine", "draining"}
    /\ \A t \in Tasks :
          (pc[t] \in {"cursorLocked", "advancing"} /\ IsSessionCursorTask(t))
              => cursorLock[call[t].target] = t
    /\ (\E t \in Tasks : InFlight(t)) => \E t \in Tasks : InFlight(t) /\ CanProceed(t)

\* A dropped next() holds the cursor lock and waits for the session lock,
\* which a facade operation holds inside its engine call: the facade
\* operation asks for no cursor lock and can proceed.
C31_Witness ==
    \E t, u \in Tasks :
        /\ pc[t] = "cursorLocked" /\ abandoned[t]
        /\ ~CanProceed(t)
        /\ pc[u] = "engine" /\ call[u].op \in FacadeOps
        /\ sessionLock[SessionOf(call[t].target)] = u

\* A next_batch or collect on a session cursor has made an advance and has
\* more to make.
MidCall(t) ==
    /\ IsSessionCursorTask(t)
    /\ call[t].op \in {"next_batch", "collect"}
    /\ pc[t] \in {"cursorLocked", "advancing"}
    /\ acc[t] # <<>>

\* C32: between the advances of one next_batch or collect on a session cursor
\* the call holds the session lock, no other operation is inside an engine
\* call on the session, none can take the lock, and no step changes what the
\* session has absorbed; when no call is inside an engine call on a session,
\* as between two next() calls, the lock is free and a waiting session
\* operation can take it.
C32_LockAcrossAdvances ==
    /\ [](\A t \in Tasks :
            MidCall(t) =>
                LET s == SessionOf(call[t].target) IN
                /\ sessionLock[s] = t
                /\ \A u \in Tasks \ {t} :
                      /\ ~InEngineOn(u, s)
                      /\ (pc[u] = "spawned" /\ call[u].target = s)
                            => ~ENABLED SessionOpLock(u))
    /\ [][\A t \in Tasks :
            (MidCall(t) /\ MidCall(t)') =>
                /\ sessionState' = sessionState
                /\ serialState' = serialState]_vars
    /\ [](\A s \in Sessions :
            (\A t \in Tasks : ~InEngineOn(t, s)) =>
                /\ sessionLock[s] = NoTask
                /\ \A u \in Tasks :
                      (pc[u] = "spawned" /\ call[u].target = s)
                          => ENABLED SessionOpLock(u))

\* A next_batch is between two advances while a commit waits for the session.
C32_Witness ==
    \E t, u \in Tasks :
        /\ MidCall(t) /\ call[t].op = "next_batch"
        /\ pc[u] = "spawned" /\ call[u].op = "commit_transaction"
        /\ ~ENABLED SessionOpLock(u)

\* Task t runs an operation that opens and drains a cursor, and has its lock.
OpenToDrain(t) == pc[t] \in {"engine", "draining"} /\ call[t].op \in DrainOps

\* C33: from its lock step to the end of its drain a find_many_with_session
\* (list_indexes, list_collections) holds the session lock, no other operation
\* starts on the session or can take the lock, and only its own open step
\* changes the session; a find_with_session that has returned its cursor does
\* not hold the session lock, and while no call is inside an engine call on
\* the session of an opened cursor the lock is free for a waiting operation.
C33_OpenAndDrain ==
    /\ [](\A t \in Tasks :
            OpenToDrain(t) =>
                LET s == call[t].target IN
                /\ sessionLock[s] = t
                /\ \A u \in Tasks \ {t} :
                      /\ ~InEngineOn(u, s)
                      /\ (pc[u] = "spawned" /\ call[u].target = s)
                            => ~ENABLED SessionOpLock(u)
                      /\ (pc[u] = "cursorLocked" /\ SessionOf(call[u].target) = s)
                            => ~ENABLED SessionCursorSessionLock(u))
    /\ [][\A t \in Tasks :
            (OpenToDrain(t) /\ OpenToDrain(t)') =>
                /\ serialState' = serialState
                /\ pc'[t] = pc[t] => sessionState' = sessionState]_vars
    /\ [](\A t \in Tasks, s \in Sessions :
            (pc[t] = "done" /\ call[t].op = "find_with_session") => sessionLock[s] # t)
    /\ [](\A c \in SessionCursors :
            LET s == engineSession[c] IN
            (s # NoSession /\ \A t \in Tasks : ~InEngineOn(t, s)) =>
                /\ sessionLock[s] = NoTask
                /\ \A u \in Tasks :
                      (pc[u] = "spawned" /\ call[u].target = s)
                          => ENABLED SessionOpLock(u))

\* A cursor opened by find_with_session has not been advanced, a commit has
\* run on its session since, and now a find_many_with_session is draining
\* while another commit waits for the session.
C33_Witness ==
    \E t, u \in Tasks, c \in SessionCursors :
        /\ pc[t] = "draining"
        /\ pc[u] = "spawned" /\ call[u].op = "commit_transaction"
        /\ ~ENABLED SessionOpLock(u)
        /\ c \in opened /\ resultLen[c] > 0 /\ pos[c] = 0
        /\ sessionState[engineSession[c]].prev = "commit_transaction"

\* No call on cursor c has been abandoned and none has met an engine error.
Clean(c) ==
    /\ ~abandonedOn[c]
    /\ ~errorSeen[c]
    /\ \A t \in Tasks : call[t].target = c => engineErr[t] = NoErr /\ ~abandoned[t]

\* Documents from + 1 .. to of the result set of c, in result order.
Slice(c, from, to) == [i \in 1..(to - from) |-> ResultSet(c)[from + i]]

C35_FetchedThenLost ==
    /\ [](\A t \in Tasks :
            (/\ pc[t] = "done"
             /\ call[t].op \in {"next_batch", "collect"}
             /\ engineErr[t] # NoErr
             /\ Len(acc[t]) >= 1) =>
                /\ result[t] = [kind |-> Classify(engineErr[t]), docs |-> <<>>]
                /\ endPos[t] >= startPos[t] + Len(acc[t])
                /\ pos[call[t].target] >= endPos[t])
    /\ [][\A c \in Cursors : pos'[c] >= pos[c]]_vars
    /\ [][\A t \in Tasks :
            (pc[t] # "advancing" /\ pc'[t] = "advancing") =>
                startPos'[t] = pos[call[t].target]]_vars
    /\ [](\A t \in Tasks :
            LET c == call[t].target IN
            /\ pc[t] = "advancing" =>
                  \E q \in startPos[t]..pos[c] : acc[t] = Slice(c, startPos[t], q)
            /\ (pc[t] = "done" /\ call[t].op \in CursorOps /\ result[t].kind = "Ok") =>
                  result[t].docs = Slice(c, startPos[t], startPos[t] + Len(result[t].docs)))

\* A next_batch fetched a document, then met an engine error that left the
\* cursor right behind that document.
C35_Witness ==
    \E t \in Tasks :
        /\ pc[t] = "done" /\ call[t].op = "next_batch"
        /\ engineErr[t] # NoErr
        /\ Len(acc[t]) = 1
        /\ result[t].docs = <<>>
        /\ endPos[t] = startPos[t] + 1

\* Calls on cursor c whose document waits for the caller's await.
Undelivered(c) ==
    Cardinality({t \in Tasks : /\ pc[t] = "done" /\ call[t].target = c
                                /\ result[t].kind = "Ok"})

\* C36: a next() the caller has dropped stays a task until it has run: the
\* step that ends it moves the cursor one position (none at the end of the
\* results), leaves both locks free and hands the caller nothing.  Once such
\* calls have run on a cursor with results left, the cursor is past more
\* documents than the caller has received or is about to receive, and a
\* next() that resolves with a document resolves with the one at the position
\* the cursor had when the call got its locks.
C36_AbandonedNextRuns ==
    /\ [](\A t \in Tasks : abandoned[t] => InFlight(t))
    /\ [][\A t \in Tasks :
            (abandoned[t] /\ pc[t] = "advancing" /\ pc'[t] # "advancing") =>
                LET c == call[t].target IN
                /\ pc'[t] = "idle"
                /\ pos'[c] = Min(pos[c] + 1, resultLen[c])
                /\ cursorLock'[c] = NoTask
                /\ c \in SessionCursors => sessionLock'[SessionOf(c)] = NoTask
                /\ delivered' = delivered]_vars
    /\ [](\A c \in observed :
            (/\ abandonedOn[c]
             /\ \A t \in Tasks : call[t].target = c => pc[t] = "done"
             /\ pos[c] < resultLen[c]) =>
                pos[c] > delivered[c] + Undelivered(c))
    /\ [](\A t \in Tasks :
            (pc[t] = "done" /\ call[t].op = "next" /\ result[t].kind = "Ok") =>
                /\ result[t].docs = <<ResultSet(call[t].target)[startPos[t] + 1]>>
                /\ endPos[t] = startPos[t] + 1)

\* The first next() was dropped after its dispatch and has run; the caller,
\* who has received nothing yet, is about to receive the second document.
C36_Witness ==
    \E t \in Tasks :
        LET c == call[t].target IN
        /\ pc[t] = "done" /\ call[t].op = "next"
        /\ c \in observed /\ abandonedOn[c]
        /\ \A u \in Tasks \ {t} : pc[u] = "idle"
        /\ delivered[c] = 0
        /\ resultLen[c] >= 2
        /\ result[t] = [kind |-> "Ok", docs |-> <<ResultSet(c)[2]>>]
        /\ cursorLock[c] = NoTask

\* C37: the step in which a task panics leaves none of its locks held and
\* resolves its call with PyRuntimeError; a lock is held only by a task that
\* is inside its engine call or its advance; and when no such task is on a
\* session or a cursor, an operation waiting for that lock can take it.
C37_PanicReleases ==
    /\ [][\A t \in Tasks :
            (joinErr[t] = "none" /\ joinErr'[t] = "panicked") =>
                /\ \A s \in Sessions : sessionLock'[s] # t
                /\ \A c \in Cursors : cursorLock'[c] # t
                /\ pc'[t] = "done"
                /\ result'[t].kind = "PyRuntimeError"]_vars
    /\ [](\A t \in Tasks :
            /\ \A s \in Sessions : sessionLock[s] = t => InEngineOn(t, s)
            /\ \A c \in Cursors : cursorLock[c] = t => AdvancingOn(t, c))
    /\ [](\A u \in Tasks :
            /\ (/\ pc[u] = "spawned" /\ call[u].op \in SessionOps
                 /\ \A t \in Tasks : ~InEngineOn(t, call[u].target))
                  => ENABLED SessionOpLock(u)
            /\ (/\ pc[u] = "spawned" /\ call[u].op \in CursorOps
                 /\ \A t \in Tasks : ~AdvancingOn(t, call[u].target))
                  => ENABLED SessionCursorLock(u)
            /\ (/\ pc[u] = "cursorLocked"
                 /\ \A t \in Tasks : ~InEngineOn(t, SessionOf(call[u].target)))
                  => ENABLED SessionCursorSessionLock(u))
    /\ [](\A t \in Tasks :
            pc[t] = "done" => result[t].kind \in {"Ok", Stop, "PyRuntimeError"})

\* A transaction operation panicked inside its engine call, holding the
\* session lock; its caller has not yet taken the error, and an advance of
\* the session's cursor has since got the session lock.
C37_Witness ==
    \E t, u \in Tasks :
        /\ pc[t] = "done" /\ joinErr[t] = "panicked"
        /\ call[t].op \in TxnOps /\ attempts[t] = 1
        /\ pc[u] = "advancing"
        /\ sessionLock[call[t].target] = u

\* Task t runs a call that took its handle object by exclusive reference.
Exclusive(t) ==
    /\ pc[t] # "idle"
    /\ taskRuntime[t] # NoRuntime
    /\ call[t].op \in CursorOps \cup TxnOps

\* C38: while a cursor method or a transaction method is pending on a handle
\* object, no second such call runs on that object, and every call made on
\* it then (one of these methods, or a facade operation that borrows the
\* session) ends at once with a borrow error: no task is spawned for it, it
\* invokes nothing and it neither takes nor waits for a lock.
C38_ExclusiveHandle ==
    /\ [](\A t, u \in Tasks :
             (t # u /\ Exclusive(t) /\ Exclusive(u))
                 => call[t].target # call[u].target)
    /\ [](\A u \in Tasks :
             result[u].kind \in BorrowRejections =>
                 /\ pc[u] = "done"
                 /\ attempts[u] = 0
                 /\ \A s \in Sessions : sessionLock[s] # u
                 /\ \A c \in Cursors : cursorLock[c] # u)
    /\ [][\A u \in Tasks :
             (pc[u] = "idle" /\ pc'[u] # "idle") =>
                 IF \E t \in Tasks :
                        Exclusive(t) /\ call[t].target = call'[u].target
                 THEN /\ pc'[u] = "done"
                      /\ taskRuntime'[u] = NoRuntime
                      /\ result'[u].kind =
                             IF call'[u].op \in FacadeOps
                             THEN "PanicException" ELSE "PyBorrowMutError"
                      /\ UNCHANGED lockVars
                 ELSE pc'[u] = "spawned"]_vars

\* While start_transaction holds the session lock in the engine, a facade
\* operation on the same session object has been refused.
C38_Witness ==
    \E t, u \in Tasks :
        /\ pc[t] = "engine" /\ call[t].op = "start_transaction"
        /\ sessionLock[call[t].target] = t
        /\ pc[u] = "done" /\ call[u].op = "insert_one_with_session"
        /\ call[u].target = call[t].target
        /\ result[u].kind = "PanicException"

\* C39: the classes form the hierarchy DuplicateKeyError < WriteError <
\* OperationFailure, WriteConcernError < OperationFailure,
\* ServerSelectionError < ConnectionFailure, NoFile < GridFSError, all below
\* PyMongoError, and the class of every engine error a call returned lies
\* where its kind belongs: a write failure below OperationFailure (a write
\* error below WriteError), a server selection failure below
\* ConnectionFailure, a GridFS failure below GridFSError; it lies below
\* PyMongoError unless the kind is InvalidArgument, which is PyValueError.
C39_KindHierarchy ==
    /\ IsSubKind("DuplicateKeyError", "WriteError")
    /\ IsSubKind("WriteError", "OperationFailure")
    /\ IsSubKind("WriteConcernError", "OperationFailure")
    /\ IsSubKind("ServerSelectionError", "ConnectionFailure")
    /\ IsSubKind("NoFile", "GridFSError")
    /\ ~IsSubKind("WriteError", "DuplicateKeyError")
    /\ ~IsSubKind("WriteConcernError", "WriteError")
    /\ \A k \in ErrorKinds \ {"PyValueError"} : IsSubKind(k, "PyMongoError")
    /\ ~IsSubKind("PyValueError", "PyMongoError")
    /\ \A t \in Tasks :
          (pc[t] = "done" /\ engineErr[t] # NoErr) =>
              LET e == engineErr[t]
                  k == result[t].kind
              IN  /\ k \in ErrorKinds
                  /\ (e.kind = "InvalidArgument") <=> ~IsSubKind(k, "PyMongoError")
                  /\ e.kind = "InvalidArgument" => k = "PyValueError"
                  /\ e.kind \in {"Write", "BulkWrite", "Command"}
                        => IsSubKind(k, "OperationFailure")
                  /\ (e.kind = "BulkWrite"
                        \/ (e.kind = "Write" /\ e.failure # "WriteConcernError"))
                        => IsSubKind(k, "WriteError")
                  /\ e.kind = "ServerSelection" => IsSubKind(k, "ConnectionFailure")
                  /\ e.kind = "GridFs" => IsSubKind(k, "GridFSError")

\* One call has returned a duplicate key error, two classes below
\* OperationFailure, and another the value error of an invalid argument.
C39_Witness ==
    \E t, u \in Tasks :
        /\ pc[t] = "done" /\ engineErr[t].kind = "Write"
        /\ result[t].kind = "DuplicateKeyError"
        /\ pc[u] = "done" /\ engineErr[u].kind = "InvalidArgument"
        /\ result[u].kind = "PyValueError"

\* C40: a call whose task ran to its end returns what the work produced: the
\* document next fetched, the end of the results when there was none left,
\* the plain success of a commit, or the class of the engine failure; it
\* returns PyRuntimeError exactly when its task panicked, and never for a
\* failure the engine reported.
C40_OutcomeNotConfused ==
    \A t \in Tasks :
        (pc[t] = "done" /\ taskRuntime[t] # NoRuntime) =>
            LET c == call[t].target IN
            /\ (result[t].kind = "PyRuntimeError") <=> (joinErr[t] # "none")
            /\ engineErr[t] # NoErr =>
                  /\ joinErr[t] = "none"
                  /\ result[t] = [kind |-> Classify(engineErr[t]), docs |-> <<>>]
            /\ (joinErr[t] = "none" /\ engineErr[t] = NoErr) =>
                  IF call[t].op # "next"
                  THEN result[t] = [kind |-> "Ok", docs |-> <<>>]
                  ELSE IF endPos[t] > startPos[t]
                  THEN result[t] = [kind |-> "Ok",
                                    docs |-> <<ResultSet(c)[endPos[t]]>>]
                  ELSE /\ result[t] = [kind |-> Stop, docs |-> <<>>]
                       /\ endPos[t] = resultLen[c]

\* A commit whose task panicked has returned PyRuntimeError, and a next the
\* engine failed has returned the class of that failure.
C40_Witness ==
    \E t, u \in Tasks :
        /\ pc[t] = "done" /\ call[t].op = "commit_transaction"
        /\ joinErr[t] = "panicked" /\ result[t].kind = "PyRuntimeError"
        /\ pc[u] = "done" /\ call[u].op = "next"
        /\ engineErr[u] = EngineErr("Io", "", 0)
        /\ result[u].kind = "PyMongoError"

====
